---------------------------- MODULE MCAccountApi ----------------------------
EXTENDS AccountApi, TLC

\* Everyone uses one email, and one name for keys.
MCEmail == [r \in Registrations \cup Logins \cup Creations |-> CHOOSE e \in Emails : TRUE]
MCName == [c \in Creations |-> "production"]

MCSymmetry ==
    Permutations(Registrations) \cup Permutations(Refreshes) \cup Permutations(Creations)

=============================================================================
