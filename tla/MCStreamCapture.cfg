SPECIFICATION Spec
CONSTANTS
  MaxPicture = 2
  Delta = 1
  CaptureMs = 2
  IdleCaptureMs = 4
  IdleAfterMs = 3
  IdleProbeMs = 2
  Late = 2
  CaptureMax = 2
  Paths = {"dmabuf", "dir"}
  Faults = {"import", "ppm", "push"}
  Never = Never
  Unlimited = Unlimited
INVARIANTS TypeOK PictureInTime
