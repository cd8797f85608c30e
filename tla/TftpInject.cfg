SPECIFICATION Spec
CONSTANTS
    k0 = k0
    k1 = k1
    k2 = k2
    k3 = k3
    k4 = k4
    f0 = f0
    f1 = f1
    f3 = f3
    p1 = p1
    p2 = p2
    a = a
    b = b
    nl = nl
    None = None
    Kernels = {k0, k1, k2, k3, k4}
    KernelLen <- MCKernelLen
    Capacity <- MCCapacity
    DefaultsCell = 2
    Chars = {a, b, nl}
    MaxKernelSize = 3
    Texts <- MCTexts
    Newline = nl
    BlockBytes = 3
    InjectBytes = 3
    Uploads = {}
    UploadLen <- MCUploadLen
    Paths = {}
    PathOf <- MCPathOf
    WriteBufBlocks = 2
    PushWhileArmed = TRUE
PROPERTIES NextPushCarriesPromised
