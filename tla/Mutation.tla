------------------------------ MODULE Mutation ------------------------------
(***************************************************************************)
(* The identity-bound file operations of mutation.py, as PreparedOutput-    *)
(* Transaction of stable_io.py calls them on Windows (elsewhere they all    *)
(* raise MutationUnsupported): replace, delete, rename, remove_tree,        *)
(* ensure_directory_path and, under module AppendLock, append_bytes.  Each  *)
(* one captures what it is authorized to change, anchors the parent         *)
(* directory by a handle, proves the target, and changes it.  Other         *)
(* programs create, edit and delete files and exchange the parent, except   *)
(* where an open handle forbids it.                                         *)
(*                                                                          *)
(* A place is a directory and a name; an entry has a kind, an identity and  *)
(* bytes.  The subdirectories of the parent hold files only.                *)
(***************************************************************************)
EXTENDS AppendLock, Sequences

CONSTANTS Roots,       \* the directories that are the verified root in turn
          Subs,        \* identities of its subdirectories
          FileIds,     \* identities of files
          Names,       \* names in a directory
          Kinds,       \* the operations that run
          Mutators,    \* the threads that run them; all threads append
          Starts,      \* the trees to begin with
          MaxOps,      \* bound: operations begun
          MaxOthers    \* bound: steps of other programs

ASSUME DirsAssumption ==
    /\ Roots \cap Subs = {} /\ (Roots \cup Subs) \cap FileIds = {}
    /\ None \notin Roots \cup Subs \cup FileIds
ASSUME KindsAssumption ==
    /\ Kinds \subseteq {"replace", "delete", "rename", "remove_tree", "mkdir"}
    /\ Mutators \subseteq Threads /\ {MaxOps, MaxOthers} \subseteq Nat

VARIABLES root,     \* the directory that the root's path leads to
          fs,       \* the entry at each place
          op,       \* what each thread is doing
          log,      \* the records of the appended file in each root
          written,  \* history: the records that were appended, with their root
          left      \* how many operations, and steps of others, are still to come

mutVars == <<root, fs, op, log, written, left>>
vars == <<lockVars, mutVars>>

Places == (Roots \X Names) \cup (Subs \X {"child"})
Absent == [kind |-> "absent", id |-> None, data |-> "none"]
File(id, d) == [kind |-> "file", id |-> id, data |-> d]
Dir(id) == [kind |-> "dir", id |-> id, data |-> "none"]
Entry == {Absent} \cup {File(i, d) : i \in FileIds, d \in {"user", "edited", "torn", "new"}}
                  \cup {Dir(i) : i \in Subs}

\* In a tree every entry has an identity of its own, and what lies in a directory
\* lies in one that is there.
ASSUME StartsAssumption ==
    \A s \in Starts :
        /\ s \in [Places -> Entry]
        /\ \A q, r \in Places : s[q].id = s[r].id => q = r \/ s[q] = Absent
        /\ \A q \in Places : q[1] \in Subs /\ s[q] # Absent
                              => /\ s[q].kind = "file"
                                 /\ \E r \in Roots, n \in Names : s[<<r, n>>].id = q[1]

NoOp == [pc |-> "idle", what |-> None, name |-> None, from |-> None, auth |-> Absent,
         from_auth |-> Absent, expected |-> None, anchor |-> None, handle |-> {},
         temp |-> Absent, list |-> {}, kid |-> None, pos |-> 0]

Kids(i) == {<<i, "child">>}
Init == /\ LockInit
        /\ root \in Roots /\ fs \in Starts
        /\ \A r \in Roots \ {root}, n \in Names : fs[<<r, n>>] = Absent
        /\ op = [t \in Threads |-> NoOp]
        /\ log = [r \in Roots |-> <<>>] /\ written = {}
        /\ left = [ops |-> MaxOps, others |-> MaxOthers]

-----------------------------------------------------------------------------
(* What the operating system allows other programs while handles are open: a *)
(* handle without FILE_SHARE_DELETE keeps its entry in place, one without    *)
(* FILE_SHARE_WRITE keeps its bytes.                                         *)

At(n) == <<root, n>>
Handles == UNION {op[t].handle : t \in Threads}
Pinned(q) == q \in Handles
Anchored == \E t \in Threads : op[t].anchor # None \/ lk[t] \in {"kernel", "in"}
Reachable(q) == q[1] = root \/ \E n \in Names : fs[At(n)].id = q[1]
Used == {fs[q].id : q \in Places}
        \cup UNION {{op[t].auth.id, op[t].from_auth.id, op[t].temp.id} : t \in Threads}
Fresh(ids) == IF ids \subseteq Used THEN {} ELSE {CHOOSE i \in ids \ Used : TRUE}

OneLess(what) == left[what] > 0 /\ left' = [left EXCEPT ![what] = @ - 1]

Other(q) == /\ OneLess("others") /\ Reachable(q) /\ ~Pinned(q)
            /\ \/ fs[q] = Absent /\ \E i \in Fresh(FileIds) : fs' = [fs EXCEPT ![q] = File(i, "user")]
               \/ fs[q].kind = "file" /\ fs' = [fs EXCEPT ![q].data = "edited"]
               \/ fs[q].kind = "file" /\ fs' = [fs EXCEPT ![q] = Absent]
            /\ UNCHANGED <<lockVars, root, op, log, written>>

ExchangeRoot == /\ OneLess("others") /\ ~Anchored
                /\ root' \in Roots \ {root}
                /\ UNCHANGED <<lockVars, fs, op, log, written>>

-----------------------------------------------------------------------------
(* The frame of every operation. *)

Goto(t, pc) == op' = [op EXCEPT ![t].pc = pc]

(* An exception: handles are closed and the temporary is unlinked. *)
Ends(t) == op' = [op EXCEPT ![t] = NoOp]

(* capture_target in the caller, or _capture_path: what is authorized. *)
Begin(t, what, n, m) ==
    /\ OneLess("ops") /\ op[t].pc = "idle" /\ lk[t] = "out"
    /\ what = "rename" <=> n # m
    /\ \/ what \notin {"remove_tree", "mkdir"}
       \/ what = "remove_tree" /\ fs[At(n)].kind = "dir"
       \/ what = "mkdir" /\ fs[At(n)] = Absent
    /\ op' = [op EXCEPT ![t] = [NoOp EXCEPT !.pc = "init", !.what = what, !.name = n, !.from = m,
                                            !.auth = fs[At(n)], !.from_auth = fs[At(m)]]]
    /\ UNCHANGED <<lockVars, root, fs, log, written>>

(* _DirectoryAnchor: the identities are taken, the handles opened, compared. *)
AnchorInit(t) == /\ op[t].pc = "init"
                 /\ op' = [op EXCEPT ![t].expected = root, ![t].pc = "enter"]
                 /\ UNCHANGED <<lockVars, root, fs, log, written, left>>

Held(t) == op' = [op EXCEPT ![t].anchor = root, ![t].pc = "prove"]

AnchorEnter(t) == /\ op[t].pc = "enter"
                  /\ IF root = op[t].expected THEN Held(t) ELSE Ends(t)
                  /\ UNCHANGED <<lockVars, root, fs, log, written, left>>

Proven(t) == /\ fs[At(op[t].name)] = op[t].auth
             /\ op[t].what = "rename" => fs[At(op[t].from)] = op[t].from_auth

(* Where the operation goes on after _require_expected. *)
AfterProof(o) ==
    CASE o.what = "replace" /\ o.auth.kind = "file" -> "open"
      [] o.what = "replace" /\ o.auth = Absent -> "temp"
      [] o.what = "delete" /\ o.auth = Absent -> "verify"
      [] o.what = "delete" /\ o.auth.kind = "file" -> "open"
      [] o.what = "rename" /\ o.auth = Absent /\ o.from_auth # Absent -> "move"
      [] o.what = "remove_tree" -> "open_tree"
      [] o.what = "mkdir" -> "mkdir"
      [] o.what = "append" -> "seek"
      [] OTHER -> "refused"

Prove(t) == /\ op[t].pc = "prove"
            /\ IF (op[t].what \in {"append", "mkdir"} \/ Proven(t)) /\ AfterProof(op[t]) # "refused"
               THEN Goto(t, AfterProof(op[t])) ELSE Ends(t)
            /\ UNCHANGED <<lockVars, root, fs, log, written, left>>

(* The last capture of an operation; what it finds makes the receipt. *)
Verify(t) == /\ op[t].pc = "verify" /\ Ends(t)
             /\ UNCHANGED <<lockVars, root, fs, log, written, left>>

-----------------------------------------------------------------------------
(* replace and delete of a file that is there *)

(* Mutant: the proof is not repeated once the handle is open. *)
OpenUnproven(t) == fs[At(op[t].name)].kind = "file" /\ ~Pinned(At(op[t].name))
OpenProven(t) == fs[At(op[t].name)] = op[t].auth /\ ~Pinned(At(op[t].name))

Open(t) == /\ op[t].pc = "open"
           /\ IF OpenProven(t)
              THEN op' = [op EXCEPT ![t].handle = {At(op[t].name)},
                                    ![t].pc = IF op[t].what = "delete" THEN "delete" ELSE "write"]
              ELSE Ends(t)
           /\ UNCHANGED <<lockVars, root, fs, log, written, left>>

(* In place: the bytes, then the truncation. *)
Write(t) == /\ op[t].pc = "write"
            /\ fs' = [fs EXCEPT ![At(op[t].name)].data = "torn"]
            /\ Goto(t, "truncate")
            /\ UNCHANGED <<lockVars, root, log, written, left>>

Truncate(t) == /\ op[t].pc = "truncate"
               /\ fs' = [fs EXCEPT ![At(op[t].name)].data = "new"]
               /\ op' = [op EXCEPT ![t].handle = {}, ![t].pc = "verify"]
               /\ UNCHANGED <<lockVars, root, log, written, left>>

Delete(t) == /\ op[t].pc = "delete"
             /\ fs' = [fs EXCEPT ![At(op[t].name)] = Absent]
             /\ op' = [op EXCEPT ![t].handle = {}, ![t].pc = "verify"]
             /\ UNCHANGED <<lockVars, root, log, written, left>>

(* replace of a file that is not there: a temporary, linked without replacing. *)
NewTemp(t) == /\ op[t].pc = "temp"
              /\ \E i \in Fresh(FileIds) :
                    op' = [op EXCEPT ![t].temp = File(i, "new"), ![t].pc = "link"]
              /\ UNCHANGED <<lockVars, root, fs, log, written, left>>

Link(t) == /\ op[t].pc = "link"
           /\ IF fs[At(op[t].name)] = Absent
              THEN fs' = [fs EXCEPT ![At(op[t].name)] = op[t].temp] /\ Goto(t, "unlink")
              ELSE UNCHANGED fs /\ Ends(t)
           /\ UNCHANGED <<lockVars, root, log, written, left>>

UnlinkTemp(t) == /\ op[t].pc = "unlink"
                 /\ op' = [op EXCEPT ![t].temp = Absent, ![t].pc = "verify"]
                 /\ UNCHANGED <<lockVars, root, fs, log, written, left>>

-----------------------------------------------------------------------------
(* rename: MoveFileExW with flag 1, which is MOVEFILE_REPLACE_EXISTING *)

Move(t) == /\ op[t].pc = "move"
           /\ LET src == At(op[t].from)
                  dst == At(op[t].name)
              IN IF /\ fs[src] # Absent /\ ~Pinned(src) /\ ~Pinned(dst)
                    /\ fs[dst] # Absent => fs[src].kind = "file" /\ fs[dst].kind = "file"
                 THEN fs' = [fs EXCEPT ![dst] = fs[src], ![src] = Absent] /\ Goto(t, "verify")
                 ELSE UNCHANGED fs /\ Ends(t)
           /\ UNCHANGED <<lockVars, root, log, written, left>>

-----------------------------------------------------------------------------
(* remove_tree, ensure_directory_path *)

OpenTree(t) == /\ op[t].pc = "open_tree"
               /\ LET q == At(op[t].name)
                      kids == {k \in Kids(op[t].auth.id) : fs[k] # Absent}
                  IN IF fs[q] = op[t].auth /\ ~Pinned(q)
                     THEN op' = [op EXCEPT ![t].handle = {q}, ![t].list = kids, ![t].pc = "tree"]
                     ELSE Ends(t)
               /\ UNCHANGED <<lockVars, root, fs, log, written, left>>

CaptureChild(t) == /\ op[t].pc = "tree"
                   /\ \E k \in op[t].list :
                         op' = [op EXCEPT ![t].list = @ \ {k}, ![t].kid = k, ![t].from_auth = fs[k],
                                          ![t].pc = IF fs[k] = Absent THEN "tree" ELSE "child"]
                   /\ UNCHANGED <<lockVars, root, fs, log, written, left>>

ChildProven(t) == fs[op[t].kid] = op[t].from_auth

DeleteChild(t) == /\ op[t].pc = "child"
                  /\ IF ChildProven(t)
                     THEN fs' = [fs EXCEPT ![op[t].kid] = Absent] /\ Goto(t, "tree")
                     ELSE UNCHANGED fs /\ Ends(t)
                  /\ UNCHANGED <<lockVars, root, log, written, left>>

(* Mutant: the directory is not read again. *)
AllListed(t) == TRUE
Emptied(t) == \A k \in Kids(op[t].auth.id) : fs[k] = Absent

RemoveDirectory(t) == /\ op[t].pc = "tree" /\ op[t].list = {}
                      /\ IF Emptied(t)
                         THEN /\ fs' = [fs EXCEPT ![At(op[t].name)] = Absent]
                              /\ op' = [op EXCEPT ![t].handle = {}, ![t].pc = "verify"]
                         ELSE UNCHANGED fs /\ Ends(t)
                      /\ UNCHANGED <<lockVars, root, log, written, left>>

MakeDirectory(t) == /\ op[t].pc = "mkdir"
                    /\ \/ /\ fs[At(op[t].name)] = Absent
                          /\ \E i \in Fresh(Subs) : fs' = [fs EXCEPT ![At(op[t].name)] = Dir(i)]
                       \/ fs[At(op[t].name)] # Absent /\ UNCHANGED fs
                    /\ Goto(t, "verify")
                    /\ UNCHANGED <<lockVars, root, log, written, left>>

-----------------------------------------------------------------------------
(* append_jsonl: append_bytes under the lock of the path *)

Appended(t) == Cardinality({w \in written : w[2] = t})

(* Mutant: the lock is released around a pending append. *)
LocksEarly(t) == /\ \/ op[t].pc = "idle" /\ Register(t) /\ OneLess("ops")
                    \/ /\ TakeLocal(t) \/ LockFails(t) \/ ReleaseKernel(t) \/ ReleaseLocal(t) \/ Unregister(t)
                       /\ UNCHANGED left
                 /\ UNCHANGED <<root, fs, op, log, written>>

Locks(t) == /\ op[t].pc = "idle"
            /\ \/ Register(t) /\ OneLess("ops")
               \/ /\ TakeLocal(t) \/ LockFails(t) \/ ReleaseKernel(t) \/ ReleaseLocal(t) \/ Unregister(t)
                  /\ UNCHANGED left
            /\ UNCHANGED <<root, fs, op, log, written>>

BeginAppend(t) == /\ TakeKernel(t)
                  /\ op' = [op EXCEPT ![t] = [NoOp EXCEPT !.pc = "init", !.what = "append"]]
                  /\ UNCHANGED <<root, fs, log, written, left>>

Seek(t) == /\ op[t].pc = "seek"
           /\ op' = [op EXCEPT ![t].pos = Len(log[root]), ![t].pc = "append"]
           /\ UNCHANGED <<lockVars, root, fs, log, written, left>>

AppendBytes(t) == /\ op[t].pc = "append"
                  /\ LET rec == <<root, t, Appended(t)>>
                     IN /\ log' = [log EXCEPT ![root] = Append(SubSeq(@, 1, op[t].pos), rec)]
                        /\ written' = written \cup {rec}
                  /\ Goto(t, "verify")
                  /\ UNCHANGED <<lockVars, root, fs, left>>

-----------------------------------------------------------------------------
(* Any call may raise, and any process may end. *)
Fails(t) == /\ op[t].pc # "idle" /\ Ends(t)
            /\ UNCHANGED <<lockVars, root, fs, log, written, left>>

Dies(p) == /\ LocksDie(p)
           /\ op' = [t \in Threads |-> IF ProcOf[t] = p THEN NoOp ELSE op[t]]
           /\ UNCHANGED <<root, fs, log, written, left>>

Step(t) == \/ AnchorInit(t) \/ AnchorEnter(t) \/ Prove(t) \/ Verify(t)
           \/ Open(t) \/ Write(t) \/ Truncate(t) \/ Delete(t)
           \/ NewTemp(t) \/ Link(t) \/ UnlinkTemp(t) \/ Move(t)
           \/ OpenTree(t) \/ CaptureChild(t) \/ DeleteChild(t) \/ RemoveDirectory(t)
           \/ MakeDirectory(t) \/ Seek(t) \/ AppendBytes(t) \/ Locks(t) \/ BeginAppend(t)

Next == \/ \E t \in Mutators, what \in Kinds, n, m \in Names : Begin(t, what, n, m)
        \/ \E t \in Threads : Step(t) \/ Fails(t)
        \/ \E q \in Places : Other(q)
        \/ ExchangeRoot
        \/ \E p \in Processes : Dies(p)

Spec == Init /\ [][Next]_vars
-----------------------------------------------------------------------------
TypeOK == /\ root \in Roots /\ fs \in [Places -> Entry]
          /\ \A q, r \in Places : fs[q].id = fs[r].id => q = r \/ fs[q] = Absent
          /\ \A t \in Threads : /\ op[t].auth \in Entry /\ op[t].handle \subseteq Places
                                 /\ op[t].anchor \in {None, root}
          /\ lk \in [Threads -> LockPcs] /\ users \in [Entries -> Nat]

(* "the target state they authorized": whatever other programs do between the *)
(* proofs, replace, delete and remove_tree overwrite or remove an entry only  *)
(* in the state that was captured, never something put there since; and every *)
(* operation changes entries of the directory it anchored, never of one that  *)
(* took its place.                                                            *)
Inside(t, q) == \/ q[1] = op[t].expected
                \/ fs[<<op[t].expected, op[t].name>>].id = q[1]
Authorized(t, q) == fs[q] \in {op[t].auth, op[t].from_auth} \/ op[t].pc = "truncate"
AuthorizedOnly ==
    [][\A t \in Threads, q \in Places :
          op'[t] # op[t] /\ fs'[q] # fs[q] =>
             /\ Inside(t, q)
             /\ op[t].what \in {"replace", "delete", "remove_tree"} /\ fs[q] # Absent
                   => Authorized(t, q)]_vars

(* "directory changed during handle-bound cleanup": a file that appears in a  *)
(* directory while it is removed is not orphaned with it.                     *)
NothingOrphaned ==
    \A q \in Places : q[1] \in Subs /\ fs[q] # Absent
                         => \E r \in Roots, n \in Names : fs[<<r, n>>].id = q[1]

(* No append overwrites another: what was appended stays in the log. *)
AppendsKept == \A w \in written : \E i \in DOMAIN log[w[1]] : log[w[1]][i] = w
=============================================================================
