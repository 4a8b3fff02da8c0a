---------------------------- MODULE StorageKeys -----------------------------
(***************************************************************************)
(* validateStorageKey and LocalStorage.resolve: which keys are accepted,   *)
(* and which path below the root they stand for. A key, like a path, is    *)
(* the sequence of its segments between slashes, so "/a" is <<"", "a">>;   *)
(* the key "" is <<"">>. These are pure functions, compared with other     *)
(* definitions: for every key up to a bound by TLC, for every key by       *)
(* LocalStorageProofs.                                                     *)
(***************************************************************************)
EXTENDS Integers, Sequences, SequencesExt

CONSTANTS
    Root,               \* the segments of the absolute storage root
    Names,              \* ordinary segments
    MaxSegments         \* bound on the keys looked at

Blank == " "            \* a segment of white space
Unportable == "\\"      \* a segment with a backslash or a NUL

Segments == Names \union {"", ".", "..", Blank, Unportable}
SomeKeys == UNION {[1 .. n -> Segments] : n \in 1 .. MaxSegments}

ASSUME KeysAssumption ==
    /\ Root \in Seq(Names)
    /\ Names \intersect {"", ".", "..", Blank, Unportable} = {}
    /\ MaxSegments \in Nat

-----------------------------------------------------------------------------
(* path.Clean, one segment after the other.                                *)

\* Of a relative path: what leads out of it gathers at its head.
Step(path, s) ==
    CASE s \in {"", "."} -> path
      [] s = ".." /\ path # <<>> /\ Last(path) # ".." -> Front(path)
      [] OTHER -> Append(path, s)

\* Of an absolute path: there is nothing above "/".
RootedStep(path, s) ==
    CASE s \in {"", "."} -> path
      [] s = ".." -> IF path = <<>> THEN <<>> ELSE Front(path)
      [] OTHER -> Append(path, s)

\* The path after each of the segments of k.
Cleaning(k) ==
    LET path[i \in 0 .. Len(k)] == IF i = 0 THEN <<>> ELSE Step(path[i - 1], k[i])
    IN  path

RootedCleaning(k) ==
    LET path[i \in 0 .. Len(k)] == IF i = 0 THEN <<>> ELSE RootedStep(path[i - 1], k[i])
    IN  path

\* path.Clean of a relative key; <<>> stands for "."
Clean(k) == Cleaning(k)[Len(k)]

\* The path resolve returns.
Resolved(k) == LET joined == Root \o k IN RootedCleaning(joined)[Len(joined)]

\* Variant: only the key ".." itself is told to escape.
EscapesItself(k) == Clean(k) \in {<<>>, <<"..">>}

\* The cleaned key is ".", ".." or begins with "../".
Escapes(k) == Clean(k) = <<>> \/ Head(Clean(k)) = ".."

\* validateStorageKey: not empty, portable, relative, and not escaping.
Accepted(k) ==
    /\ k \notin {<<"">>, <<Blank>>}
    /\ Unportable \notin ToSet(k)
    /\ Head(k) # ""
    /\ ~Escapes(k)

-----------------------------------------------------------------------------
\* How many levels a segment leads down.
Way(s) == CASE s \in {"", "."} -> 0 [] s = ".." -> -1 [] OTHER -> 1

\* Where each segment of a key leads to, as a number of levels below the root.
Depths(k) ==
    LET depth[i \in 0 .. Len(k)] == IF i = 0 THEN 0 ELSE depth[i - 1] + Way(k[i])
    IN  depth

\* No prefix of the key leaves the root, and the whole is not the root itself.
StaysBelowRoot(k) ==
    /\ \A i \in 1 .. Len(k) : Depths(k)[i] >= 0
    /\ Depths(k)[Len(k)] > 0

\* A relative, portable key is accepted exactly when it stays below the root
\* ("a/../b" is accepted, "../root/b" is not), and then it is joined to a path
\* strictly below the root, so the second check of resolve, on the joined path,
\* refuses none.
LeadsBelowRoot(k) ==
    Head(k) # "" /\ Unportable \notin ToSet(k) /\ k # <<Blank>> =>
        /\ Accepted(k) <=> StaysBelowRoot(k)
        /\ Accepted(k) => IsStrictPrefix(Root, Resolved(k))
=============================================================================
