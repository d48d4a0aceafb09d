\* One notice, one worker, up to two attempts of two deliveries each
SPECIFICATION FairSpec
CONSTANTS
    dev = dev
    Developers = {dev}
    Hooks = {h1, h2}
    Unset = Unset
    Missing = Missing
    Notices = {n1}
    Recipient <- MCRecipient
    Dispatchers = {w1}
    MaxAttempts = 2
    DeliveryLimit = 1
PROPERTIES NoticesSettle StaleClears
