---------------------------- MODULE MCAuditTrail ----------------------------
EXTENDS AuditTrail

\* Two of the four exchanges, the one that matters last
MCExchanges == <<"work.tasks", "system.events">>

=============================================================================
