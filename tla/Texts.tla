------------------------------- MODULE Texts --------------------------------
(***************************************************************************)
(* What the string calls promise: two texts, of which a call changes the   *)
(* one it names, and how.  The header promises more of two things, which   *)
(* are left open here: the blanks trim takes away, and a string that finds *)
(* no memory, whose text is lost.                                          *)
(***************************************************************************)
EXTENDS StrData

VARIABLES texts, call,
          lost,      \* the strings without their text
          fault      \* why nothing is promised any more

vars == <<texts, call, lost, fault>>

Init == texts = <<<<>>, <<>>>> /\ call.op = "new" /\ lost = {} /\ fault = "none"

Padded(s, n) == [i \in 1 .. n |-> IF i <= Len(s) THEN s[i] ELSE Blank]

\* The text after the call c on the text s, when the other one is t.
After(c, s, t) ==
  CASE c.op = "set" -> c.arg
    [] c.op = "append" -> s \o c.arg
    [] c.op = "length" -> Padded(s, c.at)
    [] c.op = "char" -> [Padded(s, Max({Len(s), c.at + 1})) EXCEPT ![c.at + 1] = c.arg[1]]
    [] c.op = "upper" -> [i \in DOMAIN s |-> Upper[s[i]]]
    [] c.op = "lower" -> [i \in DOMAIN s |-> Lower[s[i]]]
    [] c.op = "replace" -> [i \in DOMAIN s |-> IF s[i] = c.arg[1] THEN c.arg[2] ELSE s[i]]
    [] c.op = "range" -> SubSeq(t, c.at + 1, c.end)
    [] c.op = "take" -> t
    [] OTHER -> s

Call == \E s \in 1 .. 2 :
          /\ call'.on = s /\ call'.op # "trim"
          /\ texts' = [texts EXCEPT ![s] = After(call', @, texts[3 - s]),
                                    ![3 - s] = IF call'.op = "take" THEN <<>> ELSE @]
          /\ lost' = IF call'.op = "same" THEN lost
                     ELSE IF call'.op # "take" THEN lost \ {s}
                     ELSE IF 3 - s \in lost THEN {s} ELSE {}
          /\ fault' = fault

\* trim takes the blanks at the end away, of a text without blanks at the start.
\* Of the others it leaves some beginning (cfl_str.c:1210-1216), where
\* cfl_str.h:836-846 promises that the blanks at both ends go.
Trim == /\ call'.op = "trim" /\ UNCHANGED <<lost, fault>>
        /\ \E s \in 1 .. 2, n \in 0 .. Len(texts[call'.on]) :
             LET t == texts[s] IN
             /\ call'.on = s
             /\ texts' = [texts EXCEPT ![s] = SubSeq(t, 1, n)]
             /\ t # <<>> /\ t[1] # Blank =>
                  texts'[s] # <<>> /\ Last(texts'[s]) # Blank
                  /\ \A i \in n + 1 .. Len(t) : t[i] = Blank

\* A string that finds no memory loses its text (cfl_str.c:44, 48, 187), where
\* cfl_str.h:160 promises an empty one and cfl_str.h:381-382 the one it had.
NoMemory == /\ call'.op \in {"set", "append", "length"}
            /\ texts' = [texts EXCEPT ![call'.on] = <<>>]
            /\ lost' = lost \cup {call'.on} /\ fault' = fault

\* The only calls that end all promises, and the text they leave as it was.
Fault ==
  /\ UNCHANGED <<texts, lost>>
  /\ \/ fault' = "lost" /\ lost # {}                              \* it reads a text that was lost
     \/ fault' = "memory" /\ call'.op \in {"char", "range"}        \* it writes without memory
     \/ /\ fault' = "constant"                                      \* it writes into a constant
        /\ call'.op \in {"char", "replace", "upper", "lower", "trim"}
     \/ /\ fault' = "shortened" /\ call'.op \in {"set", "length", "range"}
        /\ LET s == call'.on IN Len(After(call', texts[s], texts[3 - s])) < Len(texts[s])
     \/ fault' = "range" /\ call'.op = "range" /\ call'.end < call'.at

Next == fault = "none" /\ (Call \/ Trim \/ NoMemory \/ Fault)
Spec == Init /\ [][Next]_vars
=============================================================================
