--------------------------- MODULE ThreadVarProofs ---------------------------
(***************************************************************************)
(* The election of the thread that creates the key, and what it is for, for*)
(* any number of threads, keys and values.                                 *)
(***************************************************************************)
EXTENDS MCThreads, TLAPS

\* The places of the thread that won the compare-and-swap.
Winning == {"create", "publishKey", "publishError"}

\* What the winner has done so far.
WinnerInv ==
  \A t \in Threads :
    /\ varPc[t] \in {"create", "publishError"} => liveKeys = {}
    /\ varPc[t] = "publishKey" =>
         /\ storageKey \in Keys /\ liveKeys = {storageKey}
         /\ \A u \in Threads : slot[u][storageKey] = NoData

\* Nobody has stored anything while there is no key.
NothingStored == initialized # "initialized" => \A t \in Threads : stored[t] = Default

IInv ==
  /\ V!TypeOK
  /\ V!OneInitializer
  /\ V!KeyWhenInitialized
  /\ WinnerInv
  /\ NothingStored
  /\ V!ValueKept

\* A variable starts without a key and without values.
LEMMA InitIInv == V!Init => IInv
  BY ValuesAssumption, KeysAssumption
  DEF V!Init, IInv, V!TypeOK, V!OneInitializer, V!KeyWhenInitialized, WinnerInv, NothingStored,
      V!ValueKept, V!Found, V!States, V!Places

\* A step that moves one thread between places of no winner, slot aside, and
\* touches nothing else keeps everything.
LEMMA PlainStep ==
  ASSUME IInv, NEW t \in Threads, NEW p \in {"idle", "read", "cas", "spin", "check", "slot"},
         varPc[t] \notin Winning,
         p = "slot" => initialized = "initialized",
         V!Goto(t, p), request' \in [Threads -> Values \cup {NoData}],
         UNCHANGED <<initialized, storageKey, liveKeys, slot, stored>>
  PROVE  IInv'
<1> USE ValuesAssumption, KeysAssumption DEF IInv, V!Goto
<1>1. V!TypeOK' BY DEF V!TypeOK, V!Places
<1>2. V!OneInitializer' BY DEF V!TypeOK, V!OneInitializer, Winning
<1>3. V!KeyWhenInitialized' BY DEF V!TypeOK, V!KeyWhenInitialized
<1>4. WinnerInv' BY DEF V!TypeOK, WinnerInv, Winning
<1>5. NothingStored' BY DEF NothingStored
<1>6. V!ValueKept' BY DEF V!ValueKept, V!Found
<1> QED BY <1>1, <1>2, <1>3, <1>4, <1>5, <1>6

\* Winning the compare-and-swap: the variable was untouched.
LEMMA WinStep ==
  ASSUME IInv, NEW t \in Threads, varPc[t] = "cas", initialized = "uninitialized",
         initialized' = "initializing", V!Goto(t, "create"),
         UNCHANGED <<storageKey, liveKeys, slot, request, stored>>
  PROVE  IInv'
<1> USE ValuesAssumption, KeysAssumption DEF IInv, V!Goto
<1>1. V!TypeOK' BY DEF V!TypeOK, V!States, V!Places
<1>2. V!OneInitializer' BY DEF V!TypeOK, V!OneInitializer
<1>3. V!KeyWhenInitialized' BY DEF V!TypeOK, V!KeyWhenInitialized
<1>4. WinnerInv' BY DEF V!TypeOK, WinnerInv, V!KeyWhenInitialized, V!OneInitializer
<1>5. NothingStored' BY DEF NothingStored
<1>6. V!ValueKept' BY DEF V!ValueKept
<1> QED BY <1>1, <1>2, <1>3, <1>4, <1>5, <1>6

\* The winner creates the key: it is the only live one, and empty.
LEMMA CreateKeyStep == ASSUME IInv, NEW t \in Threads, V!CreateKey(t) PROVE IInv'
<1> USE ValuesAssumption, KeysAssumption DEF IInv, V!CreateKey, V!Goto
<1>0. PICK k \in Keys \ liveKeys :
        /\ storageKey' = k /\ liveKeys' = liveKeys \cup {k}
        /\ slot' = [u \in Threads |-> [slot[u] EXCEPT ![k] = NoData]]
  OBVIOUS
<1>1. liveKeys = {} /\ initialized = "initializing" BY DEF WinnerInv, V!OneInitializer
<1>2. \A u \in Threads : u # t => varPc[u] \notin Winning BY DEF V!OneInitializer, Winning
<1>3. V!TypeOK' BY <1>0 DEF V!TypeOK, V!Places
<1>4. V!OneInitializer' BY <1>1, <1>2 DEF V!TypeOK, V!OneInitializer, Winning
<1>5. V!KeyWhenInitialized' BY <1>1 DEF V!TypeOK, V!KeyWhenInitialized
<1>6. \A u \in Threads : slot'[u][k] = NoData BY <1>0 DEF V!TypeOK
<1>7. WinnerInv' BY <1>0, <1>1, <1>2, <1>6 DEF V!TypeOK, WinnerInv, Winning
<1>8. NothingStored' BY <1>1 DEF NothingStored
<1>9. V!ValueKept' BY <1>1 DEF V!ValueKept
<1> QED BY <1>3, <1>4, <1>5, <1>7, <1>8, <1>9

\* The winner fails to create the key.
LEMMA CreateFailsStep == ASSUME IInv, NEW t \in Threads, V!CreateFails(t) PROVE IInv'
<1> USE ValuesAssumption, KeysAssumption DEF IInv, V!CreateFails, V!Goto
<1>1. V!TypeOK' BY DEF V!TypeOK, V!Places
<1>2. V!OneInitializer' BY DEF V!TypeOK, V!OneInitializer
<1>3. V!KeyWhenInitialized' BY DEF V!TypeOK, V!KeyWhenInitialized
<1>4. WinnerInv' BY DEF V!TypeOK, WinnerInv
<1>5. NothingStored' /\ V!ValueKept' BY DEF NothingStored, V!ValueKept, V!Found
<1> QED BY <1>1, <1>2, <1>3, <1>4, <1>5

\* The winner publishes what came of it: afterwards there is no winner.
LEMMA PublishStep == ASSUME IInv, NEW t \in Threads, V!Publish(t) PROVE IInv'
<1> USE ValuesAssumption, KeysAssumption DEF IInv, V!Publish, V!Goto
<1>1. initialized = "initializing" BY DEF V!OneInitializer
<1>2. \A u \in Threads : u # t => varPc[u] \notin Winning BY DEF V!OneInitializer, Winning
<1>3. \A u \in Threads : varPc'[u] \notin Winning BY <1>2 DEF V!TypeOK, Winning
<1>4. V!TypeOK' BY DEF V!TypeOK, V!States, V!Places
<1>5. V!OneInitializer' BY <1>3 DEF V!OneInitializer, Winning
<1>6. V!KeyWhenInitialized' BY <1>1 DEF V!TypeOK, V!KeyWhenInitialized, WinnerInv
<1>7. WinnerInv' BY <1>3 DEF WinnerInv, Winning
<1>8. NothingStored' BY <1>1 DEF NothingStored
<1>9. V!ValueKept' BY <1>1 DEF V!ValueKept, V!Found, WinnerInv, NothingStored, V!TypeOK
<1> QED BY <1>4, <1>5, <1>6, <1>7, <1>8, <1>9

\* A thread uses its own slot under the one live key.
LEMMA UseSlotStep == ASSUME IInv, NEW t \in Threads, V!UseSlot(t) PROVE IInv'
<1> USE ValuesAssumption, KeysAssumption DEF IInv, V!UseSlot, V!Return, V!Goto
<1>1. initialized = "initialized" /\ storageKey \in Keys BY DEF V!KeyWhenInitialized, V!TypeOK
<1>2. \A u \in Threads : varPc[u] \notin Winning BY <1>1 DEF V!OneInitializer, Winning
<1>3. \A u \in Threads : varPc'[u] \notin Winning BY <1>2 DEF V!TypeOK, Winning
<1> DEFINE v == IF request[t] = NoData THEN V!Found(t) ELSE request[t]
<1>4. v \in Values BY <1>1 DEF V!Found, V!TypeOK
<1>5. V!TypeOK' BY <1>1, <1>4 DEF V!TypeOK, V!Places
<1>6. V!OneInitializer' /\ WinnerInv' BY <1>3 DEF V!OneInitializer, WinnerInv, Winning
<1>7. V!KeyWhenInitialized' BY <1>1 DEF V!TypeOK, V!KeyWhenInitialized
<1>8. NothingStored' BY <1>1 DEF NothingStored
<1>9. V!Found(t)' = v BY <1>1, <1>4 DEF V!TypeOK, V!Found
<1>10. stored'[t] = v BY <1>1 DEF V!TypeOK, V!ValueKept, V!Found
<1>11. \A u \in Threads \ {t} : slot'[u] = slot[u] /\ stored'[u] = stored[u] BY DEF V!TypeOK
<1>12. V!ValueKept' BY <1>1, <1>9, <1>10, <1>11 DEF V!ValueKept, V!Found
<1> QED BY <1>5, <1>6, <1>7, <1>8, <1>12

\* A thread that ends takes its values with it.
LEMMA ExitStep == ASSUME IInv, NEW t \in Threads, V!Exit(t) PROVE IInv'
<1> USE ValuesAssumption, KeysAssumption DEF IInv, V!Exit
<1>1. V!TypeOK' BY DEF V!TypeOK
<1>2. V!OneInitializer' BY DEF V!OneInitializer
<1>3. V!KeyWhenInitialized' BY DEF V!KeyWhenInitialized
<1>4. WinnerInv' BY DEF V!TypeOK, WinnerInv
<1>5. NothingStored' BY DEF V!TypeOK, NothingStored
<1>6. V!ValueKept'
  <2> SUFFICES ASSUME initialized = "initialized", NEW u \in Threads PROVE V!Found(u)' = stored'[u]
    BY DEF V!ValueKept, V!Found
  <2>1. storageKey \in Keys BY DEF V!KeyWhenInitialized, V!TypeOK
  <2>2. CASE u = t BY <2>1, <2>2 DEF V!TypeOK, V!Found
  <2>3. CASE u # t BY <2>1, <2>3 DEF V!TypeOK, V!Found, V!ValueKept
  <2> QED BY <2>2, <2>3
<1> QED BY <1>1, <1>2, <1>3, <1>4, <1>5, <1>6

\* Deleting the key of an unused variable.
LEMMA VarFreeStep == ASSUME IInv, V!VarFree PROVE IInv'
<1> USE ValuesAssumption, KeysAssumption DEF IInv, V!VarFree
<1>1. storageKey \in Keys /\ liveKeys = {storageKey} BY DEF V!KeyWhenInitialized, V!TypeOK
<1>2. V!TypeOK' BY DEF V!TypeOK, V!States
<1>3. V!OneInitializer' /\ WinnerInv' BY DEF V!OneInitializer, WinnerInv, V!Unused
<1>4. V!KeyWhenInitialized' BY <1>1 DEF V!KeyWhenInitialized, V!Unused
<1>5. NothingStored' BY <1>1 DEF NothingStored, V!ValueKept, V!Found, V!Unused
<1>6. V!ValueKept' BY DEF V!ValueKept
<1> QED BY <1>2, <1>3, <1>4, <1>5, <1>6

\* Every step keeps the invariant.
LEMMA Inductive == IInv /\ [V!Next]_V!vars => IInv'
<1> SUFFICES ASSUME IInv, [V!Next]_V!vars PROVE IInv'
  OBVIOUS
<1>1. CASE V!VarFree BY <1>1, VarFreeStep
<1>2. ASSUME NEW t \in Threads, V!Call(t) PROVE IInv'
  BY <1>2, PlainStep DEF V!Call, IInv, V!TypeOK, Winning
<1>3. ASSUME NEW t \in Threads, V!Exit(t) PROVE IInv' BY <1>3, ExitStep
<1>4. ASSUME NEW t \in Threads, V!Proceed(t) PROVE IInv'
  <2>0. request \in [Threads -> Values \cup {NoData}] BY DEF IInv, V!TypeOK
  <2>1. CASE V!Read(t) BY <2>0, <2>1, PlainStep DEF V!Read, Winning
  <2>2. CASE V!CompareAndSwap(t)
    BY <2>0, <2>2, PlainStep, WinStep DEF V!CompareAndSwap, Winning
  <2>3. CASE V!CreateKey(t) BY <2>3, CreateKeyStep
  <2>4. CASE V!CreateFails(t) BY <2>4, CreateFailsStep
  <2>5. CASE V!Publish(t) BY <2>5, PublishStep
  <2>6. CASE V!Spin(t) BY <2>0, <2>6, PlainStep DEF V!Spin, Winning
  <2>7. CASE V!Check(t) BY <2>0, <2>7, PlainStep DEF V!Check, V!Return, Winning
  <2>8. CASE V!UseSlot(t) BY <2>8, UseSlotStep
  <2>9. CASE V!AllocationFails(t) BY <2>0, <2>9, PlainStep DEF V!AllocationFails, V!Return, Winning
  <2> QED BY <1>4, <2>1, <2>2, <2>3, <2>4, <2>5, <2>6, <2>7, <2>8, <2>9 DEF V!Proceed
<1>5. CASE UNCHANGED V!vars
  BY <1>5 DEF V!vars, IInv, V!TypeOK, V!OneInitializer, V!KeyWhenInitialized, WinnerInv,
              NothingStored, V!ValueKept, V!Found
<1> QED BY <1>1, <1>2, <1>3, <1>4, <1>5 DEF V!Next

LEMMA Invariance == OneSpec => []IInv
<1>1. OneInit => IInv
  BY InitIInv DEF OneInit
<1>2. [OneNext]_allVars => [V!Next]_V!vars
  BY DEF OneNext, EventRests, allVars, varVars, V!vars
<1> QED BY <1>1, <1>2, Inductive, PTL DEF OneSpec

-----------------------------------------------------------------------------

\* The fields keep their types (thread_dataGet, lines 495-515).
THEOREM TypeCorrect == OneSpec => []V!TypeOK
<1>1. IInv => V!TypeOK BY DEF IInv
<1> QED BY <1>1, Invariance, PTL

\* The compare-and-swap of line 479 elects one creator at a time.
THEOREM SingleInitializer == OneSpec => []OneInitializer
<1>1. IInv => OneInitializer BY DEF IInv, OneInitializer
<1> QED BY <1>1, Invariance, PTL

\* No thread uses a key that does not exist, and no key is leaked.
THEOREM NoKeyLeaked == OneSpec => []KeyWhenInitialized
<1>1. IInv => KeyWhenInitialized BY DEF IInv, KeyWhenInitialized
<1> QED BY <1>1, Invariance, PTL

\* A thread reads what it stored last.
THEOREM ValuesKept == OneSpec => []ValueKept
<1>1. IInv => ValueKept BY DEF IInv, ValueKept
<1> QED BY <1>1, Invariance, PTL
=============================================================================
