---------------------------- MODULE MCPackaging ----------------------------
(***************************************************************************)
(* The requirements/ tree of the model: one platform directory with        *)
(* base.txt (extra "cuda") and train.txt (extra "cuda-train"), and dev.txt *)
(* (extra "dev"), every file of a few lines over two packages, one         *)
(* annotation option and one pip option line.  train.txt and dev.txt may   *)
(* include base.txt, and base.txt may include train.txt (a cycle).         *)
(***************************************************************************)
EXTENDS Packaging

CONSTANTS base, train, dev, pa, pb, nbi, idx

MCExtraFiles == <<[name |-> "cuda", file |-> base],
                  [name |-> "cuda-train", file |-> train],
                  [name |-> "dev", file |-> dev]>>

Common == {Pkg(pa), Pkg(pb), Annot(nbi), Opt(idx)}

MCTrees ==
    {[f \in {base, train, dev} |-> IF f = base THEN cb ELSE IF f = train THEN ct ELSE cd] :
        cb \in BoundedSeq(Common \cup {Inc(train)}, 2),
        ct \in BoundedSeq(Common \cup {Inc(base)}, 3),
        cd \in BoundedSeq(Common \cup {Inc(base), Skip}, 1) \cup {Absent}}

MCRequested == {"cuda-train"}

PkgSymmetry == Permutations({pa, pb})

====
