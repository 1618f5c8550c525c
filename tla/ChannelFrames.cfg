\* Two callers share one Communication and one device.Read or Write may fail.
CONSTANTS
    Threads = {t1, t2}
    Messages <- MCMessages
    ReportSize = 9
    DevicePad = 0
    IOErrors = 1
    NoThread = NoThread
SPECIFICATION Spec
INVARIANT TypeOK
PROPERTY DeviceAssemblesWholeMessages
CONSTRAINT QueueBound
