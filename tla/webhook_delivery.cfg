\* One notice, two workers, two attempts of two deliveries each
SPECIFICATION Spec
CONSTANTS
    dev = dev
    Developers = {dev}
    Hooks = {h1}
    Unset = Unset
    Missing = Missing
    Notices = {n1}
    Recipient <- MCRecipient
    Dispatchers = {w1, w2}
    MaxAttempts = 2
    DeliveryLimit = 1
SYMMETRY MCSymmetry
INVARIANTS TypeOK NoticeAccounted
PROPERTIES WebhookPromise
