\* One caller; a device.Read may fail.
CONSTANTS
    Threads = {t1}
    Messages <- MCMessages
    ReportSize = 9
    DevicePad = 0
    IOErrors = 1
    NoThread = NoThread
SPECIFICATION Spec
INVARIANT ReplyIsOwn
