----------------------------- MODULE MCMutation -----------------------------
EXTENDS Mutation, TLC

CONSTANTS t1, t2, p1, r1, r2, s1, f1, f2, f3, f4, x, y

TwoThreads == t1 :> p1 @@ t2 :> p1

\* Nothing; a file; a file and a directory with a file in it.
Nothing == [q \in Places |-> Absent]
MCStarts == {Nothing,
             [Nothing EXCEPT ![<<r1, x>>] = File(f1, "user")],
             [Nothing EXCEPT ![<<r1, x>>] = Dir(s1), ![<<s1, "child">>] = File(f1, "user"),
                             ![<<r1, y>>] = File(f2, "user")]}
=============================================================================
