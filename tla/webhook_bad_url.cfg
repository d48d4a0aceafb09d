\* A developer without a configuration, or an endpoint that breaks off
SPECIFICATION Spec
CONSTANTS
    dev = dev
    Developers = {dev}
    Hooks = {h1}
    Unset = Unset
    Missing = Missing
    Notices = {n1}
    Recipient <- MCRecipient
    Dispatchers = {w1}
    MaxAttempts = 1
    DeliveryLimit = 1
PROPERTIES DeadByCrashOnly
