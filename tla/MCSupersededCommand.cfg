SPECIFICATION Spec
CONSTANTS
    Devices = {d1}
    Opcodes = {o1}
    Pwm = Pwm
    Callers = {c1, c2}
    Drain = Drain
    Binder = Binder
    Uploader = Uploader
    None = None
    MaxQueue = 1
    Retries = 1
    MaxCommands = 2
    MaxBindings = 1
    MaxUploads = 0
    MaxFrames = 1
CHECK_DEADLOCK FALSE
PROPERTIES
    SupersededNeverSent
