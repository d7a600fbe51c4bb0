-------------------------------- MODULE Log ---------------------------------
(***************************************************************************)
(* cfl_log.c: a tree of nodes, one for each path, behind the spin lock     *)
(* s_locked.  A logger of the application is attached to a node when it is *)
(* registered; a path that is only passed through gets a placeholder,      *)
(* named here by its path.  Nodes share writers, which count their nodes   *)
(* and are closed and freed with the last.  Writing takes no lock.         *)
(***************************************************************************)
EXTENDS Integers, Sequences, SequencesExt, FiniteSets

CONSTANTS Threads, Nobody,
          Setters,    \* the threads that look for loggers and change them;
                      \* the others only register theirs and write
          Loggers, Root, GroupOf, IdOf,  \* parentId and the file name of id, as paths
          Paths,      \* the paths clients look for, closed under prefixes
          NoNode,     \* the null pointer
          Levels, Formats,
          MaxWriters  \* bound on the writers made, the default one included

\* The names along the paths.
Names == UNION {Range(p) : p \in Paths}

\* IdOf is what file_name leaves of an id: one name, or none.
ASSUME PathsAssumption ==
  /\ Paths \subseteq Seq(Names)
  /\ \A p \in Paths : Prefixes(p) \subseteq Paths
  /\ Root \in Loggers /\ Loggers \intersect Paths = {} /\ NoNode \notin Paths
  /\ GroupOf[Root] = <<>> /\ IdOf[Root] = <<>>
  /\ \A l \in Loggers : /\ GroupOf[l] \in Paths /\ GroupOf[l] \o IdOf[l] \in Paths
                        /\ IdOf[l] = <<>> \/ \E c \in Names : IdOf[l] = <<c>>

ASSUME ThreadsAssumption == Nobody \notin Threads /\ MaxWriters \in Nat

VARIABLES tree,    \* for each node in being: its logger, writer and format
          level,   \* logger->level, of loggers and placeholders
          node,    \* logger->node
          refs,    \* refCount of each writer made
          locked,  \* the thread that has set s_locked
          pc       \* for each thread: where it is in which call

vars == <<tree, level, node, refs, locked, pc>>

-----------------------------------------------------------------------------
(* The tree                                                                *)

Objects == Loggers \union (Paths \ {<<>>})
Below(t, p) == {q \in DOMAIN t : IsPrefix(p, q)}
Error == 1
DefaultFormat == "default"

\* The node that is nearest to p: at p, or else above it.
Nearest(t, p) == CHOOSE q \in DOMAIN t : IsPrefix(q, p)
                   /\ \A r \in DOMAIN t : IsPrefix(r, p) => Len(r) <= Len(q)

\* The nodes and their loggers, named by a function of paths, as they are when
\* they are added below the node at parent, of which they inherit everything.
Added(s, parent, logger) ==
  LET above == s.tree[parent]
      Of(o) == {q \in DOMAIN logger : logger[q] = o}
  IN  [tree  |-> [q \in DOMAIN s.tree \union DOMAIN logger |->
                    IF q \in DOMAIN logger THEN [above EXCEPT !.logger = logger[q]] ELSE s.tree[q]],
       level |-> [o \in Objects |-> IF Of(o) = {} THEN s.level[o] ELSE s.level[above.logger]],
       node  |-> [o \in Objects |-> IF Of(o) = {} THEN s.node[o] ELSE CHOOSE q \in Of(o) : TRUE],
       refs  |-> [s.refs EXCEPT ![above.writer] = @ + Cardinality(DOMAIN logger)]]

\* A bug: the nodes added share the writer without counting.
AddedUncounted(s, parent, logger) == [Added(s, parent, logger) EXCEPT !.refs = s.refs]

\* addNode
AddNodes(s, parent, logger) == Added(s, parent, logger)

Start == [tree |-> tree, level |-> level, node |-> node, refs |-> refs]

\* INIT_ROOT_NODE: the first use makes the root, with the default writer.
WithRoot ==
  IF DOMAIN tree # {} THEN Start
  ELSE [Start EXCEPT !.tree = [q \in {<<>>} |-> [logger |-> Root, writer |-> 1, format |-> DefaultFormat]],
                     !.refs = <<2>>]

\* findNodePath with createMissing: the nodes that lack on the way to p get
\* placeholders, from the nearest node on.
WithPath(s, p) == AddNodes(s, Nearest(s.tree, p), [q \in Prefixes(p) \ DOMAIN s.tree |-> q])

\* A bug: the logger keeps the level it was defined with.
AttachedAsIs(s, l, p) == [s EXCEPT !.node[l] = p, !.tree[p].logger = l]

\* The logger l takes the place of the one at p, which is freed if it is a
\* placeholder, and takes over its level.
Attached(s, l, p) ==
  [s EXCEPT !.level[l] = s.level[s.tree[p].logger], !.node[l] = p, !.tree[p].logger = l]

\* cfl_log_register
Registered(s, l) ==
  LET p == GroupOf[l] \o IdOf[l]
      up == WithPath(s, GroupOf[l])
  IN  IF p \in DOMAIN up.tree THEN Attached(up, l, p) ELSE AddNodes(up, GroupOf[l], [q \in {p} |-> l])

\* node_setWriter, set_log_writer: each node drops its writer for the new one.
WithWriter(s, p) ==
  LET w == Len(s.refs) + 1
      users(old) == {q \in Below(s.tree, p) : s.tree[q].writer = old}
  IN  [s EXCEPT !.tree = [q \in DOMAIN s.tree |->
                            IF IsPrefix(p, q) THEN [s.tree[q] EXCEPT !.writer = w] ELSE s.tree[q]],
                !.refs = [old \in 1 .. w |-> IF old = w THEN Cardinality(Below(s.tree, p))
                                             ELSE s.refs[old] - Cardinality(users(old))]]

\* node_setFormatter
WithFormat(s, p, f) ==
  [s EXCEPT !.tree = [q \in DOMAIN s.tree |->
                        IF IsPrefix(p, q) THEN [s.tree[q] EXCEPT !.format = f] ELSE s.tree[q]]]

\* node_setLevel: the loggers that are attached at p and below it.
WithLevel(s, p, v) ==
  [s EXCEPT !.level = [o \in Objects |->
     IF \E q \in Below(s.tree, p) : s.tree[q].logger = o THEN v ELSE s.level[o]]]

-----------------------------------------------------------------------------
(* Threads                                                                 *)

Idle == [at |-> "idle"]

Init ==
  /\ tree = << >>
  /\ level = [o \in Objects |-> IF o = Root THEN Error ELSE CHOOSE v \in Levels : \A u \in Levels : u <= v]
  /\ node = [o \in Objects |-> IF o = Root THEN <<>> ELSE NoNode]
  /\ refs = <<>>
  /\ locked = Nobody
  /\ pc = [t \in Threads |-> Idle]

Become(s) == /\ tree' = s.tree /\ level' = s.level /\ node' = s.node /\ refs' = s.refs

\* The loggers a client may hold: its own, the root once it exists, and the
\* placeholders that cfl_log_find gave it, while they are the node's logger.
Known == (Loggers \ {Root}) \union (IF DOMAIN tree = {} THEN {} ELSE {Root})
                            \union {tree[q].logger : q \in DOMAIN tree}

Enter(t, call) == /\ pc[t] = Idle
                  /\ pc' = [pc EXCEPT ![t] = call]
                  /\ UNCHANGED <<tree, level, node, refs, locked>>

CallRegister(t) ==
  \E l \in Loggers \ {Root} : Enter(t, [at |-> "lock", op |-> "register", on |-> l])

\* cfl_log_root does not lock once the root exists.
CallRoot(t) == DOMAIN tree = {} /\ Enter(t, [at |-> "lock", op |-> "root", on |-> Root])

CallFind(t) ==
  t \in Setters /\ \E o \in Known, p \in Paths :
    /\ node[o] # NoNode /\ node[o] \o p \in Paths
    /\ Enter(t, [at |-> "lock", op |-> "find", on |-> o, path |-> p])

CallSet(t) ==
  t \in Setters /\ \E o \in Known :
    /\ node[o] # NoNode
    /\ \/ \E v \in Levels : Enter(t, [at |-> "lock", op |-> "level", on |-> o, to |-> v])
       \/ \E f \in Formats : Enter(t, [at |-> "lock", op |-> "format", on |-> o, to |-> f])
       \/ \E opened \in BOOLEAN : Enter(t, [at |-> "lock", op |-> "writer", on |-> o, to |-> opened])

\* cfl_log_write and its kin, after the test of the level in the macros.
CallWrite(t) ==
  \E o \in Known, v \in Levels :
    /\ node[o] # NoNode /\ level[o] >= v
    /\ Enter(t, [at |-> "test", on |-> o, level |-> v])

\* A compare-and-set of s_locked that succeeds.
Lock(t) == /\ pc[t].at = "lock" /\ locked = Nobody
           /\ locked' = t
           /\ pc' = [pc EXCEPT ![t].at = "body"]
           /\ UNCHANGED <<tree, level, node, refs>>

\* A bug: the call returns early when the file cannot be opened.
UnlockUnlessFailed(c) ==
  IF c.op = "writer" /\ ~c.to THEN UNCHANGED locked ELSE locked' = Nobody

Unlock(c) == locked' = Nobody

\* The rest of the call, up to the unlock.  A file that cannot be opened
\* leaves the writer as it is.
Body(t) ==
  /\ pc[t].at = "body" /\ locked = t
  /\ LET c == pc[t]
         s == WithRoot
     IN  \/ c.op = "root" /\ Become(s)
         \/ c.op = "register" /\ Become(Registered(s, c.on))
         \/ c.op = "find" /\ Become(WithPath(s, node[c.on] \o c.path))
         \/ c.op = "level" /\ Become(WithLevel(s, node[c.on], c.to))
         \/ c.op = "format" /\ Become(WithFormat(s, node[c.on], c.to))
         \/ c.op = "writer" /\ c.to /\ Len(refs) < MaxWriters /\ Become(WithWriter(s, node[c.on]))
         \/ c.op = "writer" /\ (~c.to \/ Len(refs) >= MaxWriters) /\ Become(Start)
  /\ Unlock(pc[t])
  /\ pc' = [pc EXCEPT ![t] = Idle]

\* The level is read again, then the writer of the node, without the lock.
Test(t) ==
  /\ pc[t].at = "test"
  /\ pc' = [pc EXCEPT ![t] = IF level[@.on] >= @.level
                             THEN [at |-> "write", to |-> tree[node[@.on]].writer] ELSE Idle]
  /\ UNCHANGED <<tree, level, node, refs, locked>>

\* The call through the pointer read before.
Write(t) ==
  /\ pc[t].at = "write"
  /\ pc' = [pc EXCEPT ![t] = Idle]
  /\ UNCHANGED <<tree, level, node, refs, locked>>

Step(t) == Lock(t) \/ Body(t) \/ Test(t) \/ Write(t)

Next == \E t \in Threads :
  CallRegister(t) \/ CallRoot(t) \/ CallFind(t) \/ CallSet(t) \/ CallWrite(t) \/ Step(t)

\* The spin lock yields the processor: a thread that tries for ever gets it.
Spec == Init /\ [][Next]_vars /\ \A t \in Threads : WF_vars(Step(t)) /\ SF_vars(Lock(t))

-----------------------------------------------------------------------------
(* Properties                                                              *)

\* A writer counts the nodes that share it, so that it is closed and freed
\* when the last one drops it and not before (set_log_writer, addNode).  The
\* default writer counts one more: stderr is never closed.
WritersCounted ==
  \A w \in DOMAIN refs :
    refs[w] = Cardinality({p \in DOMAIN tree : tree[p].writer = w}) + (IF w = 1 THEN 1 ELSE 0)

\* What holds at a path: the level, writer and format of its nearest node.
Initially == [level |-> Error, writer |-> 1, format |-> DefaultFormat]
Holds == [p \in Paths |->
  IF DOMAIN tree = {} THEN Initially
  ELSE LET n == tree[Nearest(tree, p)]
       IN  [level |-> level[n.logger], writer |-> n.writer, format |-> n.format]]

\* The change that the holder of the lock is about to make.
NoChange == [path |-> <<>>, field |-> "none", value |-> 0]
Asked ==
  IF locked = Nobody THEN NoChange
  ELSE LET c == pc[locked]
       IN  CASE c.op = "writer" /\ c.to /\ Len(refs) < MaxWriters ->
                  [path |-> node[c.on], field |-> c.op, value |-> Len(refs) + 1]
             [] c.op \in {"level", "format"} -> [path |-> node[c.on], field |-> c.op, value |-> c.to]
             [] OTHER -> NoChange

Promise == INSTANCE Settings WITH setting <- Holds, asked <- Asked,
                                  Default <- Initially, Nothing <- NoChange

\* Loggers registered, found or replaced in any order, by any thread, get what
\* was last set at or above their path (cfl_log_register, cfl_log_find).
ImplementsSettings == Promise!Spec

\* Every call on a registered logger returns: the spin lock is left on each
\* path and never taken twice.
CallReturns == \A t \in Threads : (pc[t] # Idle) ~> (pc[t] = Idle)
=============================================================================
