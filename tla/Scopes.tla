------------------------------- MODULE Scopes -------------------------------
(***************************************************************************)
(* The unit of scanning work of crates/scanner: a root, or a folder inside *)
(* one, and how deep it reaches (scope.rs).  A request for work is a set   *)
(* of scopes; the queue drops those that another scope of the same request *)
(* covers (queue.rs, coalesce_scopes).                                     *)
(*                                                                         *)
(* A path is the sequence of its components below the root, a component a  *)
(* natural number: what the code asks of a path is only whether it starts  *)
(* with another one and how the two sort, component by component.          *)
(***************************************************************************)
EXTENDS Naturals, FiniteSets, SequencesExt

CONSTANTS
    Root,   \* the folders a library is made of; numbers, since they sort
    Path    \* the folders inside a root, <<>> the root itself

ASSUME RootAssumption == Root \subseteq Nat
ASSUME PathAssumption == Path \subseteq Seq(Nat) /\ <<>> \in Path

Scope == [root : Root, path : Path, depth : {"subtree", "directory"}]

RootScope(r) == [root |-> r, path |-> <<>>, depth |-> "subtree"]

\* Path::starts_with: every component of p begins q.
StartsWith(q, p) == Len(p) <= Len(q) /\ \A i \in 1 .. Len(p) : q[i] = p[i]

\* Every file t visits is also visited by s.
Covers(s, t) ==
    /\ s.root = t.root
    /\ \/ s.depth = "subtree" /\ StartsWith(t.path, s.path)
       \/ s.depth = "directory" /\ t.depth = "directory" /\ t.path = s.path

\* Scan::covers: all of T's work lies within S's.
CoversAll(S, T) == \A t \in T : \E s \in S : Covers(s, t)

\* What coalescing keeps of a request: its scopes that no other one covers.
Coalesce(S) == {s \in S : \A t \in S : Covers(t, s) => t = s}

-----------------------------------------------------------------------------
(***************************************************************************)
(* How the code computes it: one sort, then one sweep that compares each   *)
(* scope with the last one kept and no other.                              *)
(***************************************************************************)
PathBefore(p, q) ==
    \/ p # q /\ StartsWith(q, p)
    \/ \E i \in 1 .. Len(p) : /\ i <= Len(q) /\ p[i] < q[i]
                              /\ \A j \in 1 .. i - 1 : p[j] = q[j]

\* Slip: the key (root, path, depth), which sorts a folder's own files before the
\* folder with everything below it.
SlipDirectoryFirst(s, t) ==
    \/ s.root < t.root
    \/ s.root = t.root /\ PathBefore(s.path, t.path)
    \/ s.root = t.root /\ s.path = t.path
       /\ s.depth = "directory" /\ t.depth = "subtree"

\* The key (root, path, depth # Subtree).
SortsBefore(s, t) ==
    \/ s.root < t.root
    \/ s.root = t.root /\ PathBefore(s.path, t.path)
    \/ s.root = t.root /\ s.path = t.path
       /\ s.depth = "subtree" /\ t.depth = "directory"

KeepUnlessCovered(kept, s) ==
    IF kept # <<>> /\ Covers(Last(kept), s) THEN kept ELSE Append(kept, s)

\* The request as sort_by leaves it, each scope once.
Sorted(S) ==
    CHOOSE q \in [1 .. Cardinality(S) -> S] :
        \A i, j \in DOMAIN q : i < j => SortsBefore(q[i], q[j])

\* out[n] is what the sweep has kept of the first n scopes.
SweepCoalesce(S) ==
    LET sorted == Sorted(S)
        out[n \in 0 .. Cardinality(S)] ==
            IF n = 0 THEN <<>> ELSE KeepUnlessCovered(out[n - 1], sorted[n])
    IN out[Cardinality(S)]
=============================================================================
