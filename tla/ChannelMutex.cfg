\* Three callers share one Communication; no I/O errors; the device pads its
\* frames with zero bytes and answers every complete message.
CONSTANTS
    Threads = {t1, t2, t3}
    Messages <- MCMessages
    ReportSize = 9
    DevicePad = 0
    IOErrors = 0
    NoThread = NoThread
SPECIFICATION FairSpec
PROPERTY ChannelImplementsAtomic
