CONSTANTS
    base = base
    train = train
    dev = dev
    pa = pa
    pb = pb
    nbi = nbi
    idx = idx
    Absent = Absent
    NoCmd = NoCmd
    Files = {base, train, dev}
    Pkgs = {pa, pb}
    AnnotOpts = {nbi}
    PipOpts = {idx}
    ExtraFiles <- MCExtraFiles
    Trees <- MCTrees
    Requested <- MCRequested
SPECIFICATION Spec
SYMMETRY PkgSymmetry
INVARIANT
    AutoInstallScope
CHECK_DEADLOCK FALSE
