---------------------------- MODULE IndexHistory ----------------------------
(***************************************************************************)
(* What publish-pypi.yml promises of the package index, whatever runs race  *)
(* or break off: a version is one build's wheel, and then that build's      *)
(* sdist; nothing on the index is replaced, mixed or taken back.            *)
(***************************************************************************)
CONSTANTS Packages, Versions, Builds

VARIABLE files   \* the files of the index: [package, version, kind, build]

Of(p, v) == {f \in files : f.package = p /\ f.version = v}
Put(p, v, kind, b) ==
  files' = files \union {[package |-> p, version |-> v, kind |-> kind, build |-> b]}
Wheel(p, v, b) == [package |-> p, version |-> v, kind |-> "wheel", build |-> b]

Init == files = {}

PublishWheel(p, v, b) == Of(p, v) = {} /\ Put(p, v, "wheel", b)
PublishSdist(p, v, b) == Of(p, v) = {Wheel(p, v, b)} /\ Put(p, v, "sdist", b)

Next == \E p \in Packages, v \in Versions, b \in Builds :
          PublishWheel(p, v, b) \/ PublishSdist(p, v, b)

Spec == Init /\ [][Next]_files
=============================================================================
