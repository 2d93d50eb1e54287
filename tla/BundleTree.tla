----------------------------- MODULE BundleTree -----------------------------
(***************************************************************************)
(* The inside of a session bundle (internal/infra/store/crypto.go): which  *)
(* entries of a user-data directory tarDir writes, and what extractTar     *)
(* makes of them.  SessionBundle moves such bundles as wholes.             *)
(*                                                                         *)
(* A path is the sequence of its components below the directory.  An entry *)
(* is [path, kind, size, now]: size is what the walk saw (of a link, how   *)
(* many .. its target starts with), now what the copy met a moment later,  *)
(* Gone if nothing, since a browser may still be writing.                  *)
(***************************************************************************)
EXTENDS Naturals, Sequences, SequencesExt

CONSTANTS Limit, \* maxBundleEntry
          Gone

ASSUME LimitAssumption == Limit \in Nat /\ Gone \notin Nat

Entries ==
  [path : Seq(STRING), kind : {"dir", "file", "link", "absolute link", "irregular"},
   size : Nat, now : Nat \cup {Gone}]

cacheDirs ==
  {<<"Cache">>, <<"Code Cache">>, <<"GPUCache">>, <<"DawnGraphiteCache">>,
   <<"DawnWebGPUCache">>, <<"GraphiteDawnCache">>, <<"ShaderCache">>, <<"GrShaderCache">>,
   <<"component_crx_cache">>, <<"optimization_guide_model_store">>,
   <<"optimization_guide_hint_cache_store">>,
   <<"Service Worker", "CacheStorage">>, <<"Service Worker", "ScriptCache">>}

matchesCacheDir(rel) == \E c \in cacheDirs : IsPrefix(c, rel)

isCachePath(rel) == matchesCacheDir(rel) \/ (Len(rel) > 1 /\ matchesCacheDir(Tail(rel)))

\* The entries filepath.Walk reaches: SkipDir keeps it out of the caches.
Walked(tree) ==
  {e \in tree : \A n \in 1..(Len(e.path) - 1) : ~isCachePath(SubSeq(e.path, 1, n))}

\* Sockets, pipes and devices are left out.
Archived(tree) == {e \in Walked(tree) : ~isCachePath(e.path) /\ e.kind # "irregular"}

\* tar.Writer refuses a file longer or shorter than its header says; a name that is
\* gone when the walk comes to it fails the walk, a cache's name as well.
TarFails(tree) ==
  \/ \E e \in Walked(tree) : e.now = Gone
  \/ \E e \in Archived(tree) : e.kind = "file" /\ e.now # e.size

tarDir(tree) ==
  IF TarFails(tree) THEN [ok |-> FALSE, entries |-> {}]
  ELSE [ok |-> TRUE,
        entries |-> {[path |-> e.path, kind |-> e.kind, size |-> e.size] : e \in Archived(tree)}]

\* Resolved against the link's own directory, which is one component less deep.
checkSymlink(e) == e.kind # "absolute link" /\ e.size < Len(e.path)

Smaller(a, b) == IF a < b THEN a ELSE b
\* Wrong on purpose: a file that ends on the limit counts as cut off by it.
writeRegularMutant(e) == Smaller(e.size, Limit) < Limit
\* One byte past the limit tells a file that ends on it from one that goes on.
writeRegular(e) == Smaller(e.size, Limit + 1) <= Limit

extractEntry(e) ==
  CASE e.kind = "dir" -> TRUE
    [] e.kind \in {"link", "absolute link"} -> checkSymlink(e)
    [] e.kind = "file" -> writeRegular(e)

\* The whole archive, or an error part of the way: SessionBundle has what that leaves.
extractTar(archive) ==
  IF \A e \in archive.entries : extractEntry(e)
  THEN [ok |-> TRUE, entries |-> archive.entries] ELSE [ok |-> FALSE, entries |-> {}]

-----------------------------------------------------------------------------
(* Properties. *)

\* What a bundle is for (crypto.go:236-262): everything but sockets and the caches
\* of the directory itself or of a profile in it, not those that merely have such a
\* name further down.
InCache(path) ==
  \E c \in cacheDirs, i \in {1, 2} :
    i + Len(c) - 1 <= Len(path) /\ SubSeq(path, i, i + Len(c) - 1) = c
Identity(tree) ==
  {[path |-> e.path, kind |-> e.kind, size |-> e.size] :
     e \in {x \in tree : x.kind # "irregular" /\ ~InCache(x.path)}}

\* What can be restored: no link out of the directory, no file over the limit.
Restorable(tree) ==
  \A e \in Identity(tree) :
    /\ e.kind # "absolute link"
    /\ e.kind = "link" => e.size <= Len(e.path) - 1
    /\ e.kind = "file" => e.size <= Limit

\* A save and a restore give the whole identity back or an error, never part of it
\* or a file torn by a browser that was still writing; and a tree that stood still
\* and has nothing in it that is refused does come back.
RoundTrips(tree) ==
  LET archive == tarDir(tree)
      back == extractTar(archive) IN
  /\ archive.ok /\ back.ok => back.entries = Identity(tree)
  /\ archive.ok => /\ \A e \in tree : ~InCache(e.path) /\ e.kind = "file" => e.now = e.size
                   /\ back.ok = Restorable(tree)
  /\ (\A e \in tree : e.now = e.size) => archive.ok
=============================================================================
