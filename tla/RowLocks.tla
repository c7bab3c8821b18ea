------------------------------ MODULE RowLocks ------------------------------
(***************************************************************************)
(* The row locks and transaction-level advisory locks of PostgreSQL, as the *)
(* transactions of sms-kit use them: a request asks for a list of locks,    *)
(* takes them one after the other, waits for each that another request      *)
(* holds in a conflicting mode, and keeps them all until it commits or      *)
(* rolls back.                                                              *)
(***************************************************************************)
EXTENDS Integers, Sequences, FiniteSets

CONSTANT Requests

VARIABLES
    locks,      \* the locks that are held: [owner, row, mode]
    todo        \* the locks each request still has to take, the next one first

\* select ... for update, an update, pg_advisory_xact_lock, an insert of a key
Exclusive(row) == [row |-> row, mode |-> "exclusive"]

\* select ... for share
Shared(row) == [row |-> row, mode |-> "shared"]

Conflicting(a, b) ==
    /\ a.row = b.row
    /\ "exclusive" \in {a.mode, b.mode}

HasLocks(r) == todo[r] = <<>>

\* Request q stands in the way of request r.
Blocks(q, r) ==
    /\ q # r
    /\ ~HasLocks(r)
    /\ \E l \in locks : l.owner = q /\ Conflicting(l, Head(todo[r]))

Acquire(r) ==
    /\ ~HasLocks(r)
    /\ \A q \in Requests : ~Blocks(q, r)
    /\ locks' = locks \cup {[owner |-> r, row |-> Head(todo[r]).row, mode |-> Head(todo[r]).mode]}
    /\ todo' = [todo EXCEPT ![r] = Tail(@)]

Ask(r, list) ==
    /\ todo' = [todo EXCEPT ![r] = list]
    /\ UNCHANGED locks

Release(r) ==
    /\ locks' = {l \in locks : l.owner # r}
    /\ todo' = [todo EXCEPT ![r] = <<>>]

\* Each member of S waits for another member of S.
Deadlocked(S) == \A r \in S : \E q \in S : Blocks(q, r)
=============================================================================
