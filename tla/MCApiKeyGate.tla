---------------------------- MODULE MCApiKeyGate ----------------------------
EXTENDS ApiKeyGate

\* All requests carry one key: requests with different keys share no state.
MCKeyOf == [r \in Requests |-> CHOOSE k \in Keys : TRUE]

=============================================================================
