SPECIFICATION LoaderSpec
CONSTANTS
    k2 = k2
    k3 = k3
    f1 = f1
    p1 = p1
    a = a
    b = b
    nl = nl
    None = None
    ResetMark = ResetMark
    Kernels = {k2, k3}
    KernelLen <- MCKernelLen
    Capacity <- MCCapacity
    DefaultsCell = 2
    Chars = {a, b, nl}
    MaxKernelSize = 3
    Texts <- MCTexts
    Forms <- MCForms
    Newline = nl
    BlockBytes = 3
    InjectBytes = 3
    Uploads = {}
    UploadLen <- MCUploadLen
    Paths = {}
    PathOf <- MCPathOf
    WriteBufBlocks = 2
    PushWhileArmed = FALSE
    Boards = {5}
CHECK_DEADLOCK FALSE
INVARIANT HandoffIsCoherent
