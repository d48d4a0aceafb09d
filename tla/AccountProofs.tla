---------------------------- MODULE AccountProofs ----------------------------
(***************************************************************************)
(* Proofs about the auth service's accounts and sessions, for any number   *)
(* of emails and of concurrent requests of every kind.                     *)
(***************************************************************************)
EXTENDS AccountApi, FiniteSetTheorems, TLAPS

-----------------------------------------------------------------------------
(* Requests and their kinds *)

LEMMA Kinds ==
    /\ Registrations \subseteq Issuers /\ Logins \subseteq Issuers /\ Refreshes \subseteq Issuers
    /\ Issuers \subseteq Requests /\ Logouts \subseteq Requests /\ Creations \subseteq Requests
    /\ \A r \in Registrations : r \notin Logins /\ r \notin Refreshes /\ r \notin Logouts
    /\ \A r \in Refreshes : r \notin Registrations /\ r \notin Logins /\ r \notin Logouts
    /\ \A r \in Logouts \cup Creations : r \notin Issuers
BY KindAssumption DEF Issuers, Requests

(* Proceed moves one request and leaves its email and its token. *)
LEMMA RequestMoves ==
    ASSUME TypeOK, NEW r \in Requests, NEW p \in Working \cup Ends, Proceed(r, p)
    PROVE  /\ request' \in [Requests -> [pc : Working \cup Ends \cup {"new"},
                                         email : Emails \cup {NoEmail},
                                         token : Issuers \cup {NoToken}]]
           /\ \A q \in Requests : /\ EmailOf(q)' = EmailOf(q)
                                  /\ TokenOf(q)' = TokenOf(q)
                                  /\ request'[q].pc = IF q = r THEN p ELSE request[q].pc
BY DEF TypeOK, Proceed, EmailOf, TokenOf

-----------------------------------------------------------------------------
(* Every step keeps the invariant *)

(* The steps that only read, fail, or insert what is not committed yet *)
LEMMA MoveKeeps ==
    ASSUME AccountInv, NEW r \in Requests,
           NEW p \in {"check", "owner", "insert", "revoke", "issue", "over"},
           Proceed(r, p), request[r].pc \notin Ends,
           UNCHANGED <<accounts, disabled, tokens>>, keys' \subseteq Creations,
           At(r, "new") => r \notin Refreshes /\ r \notin Logouts,
           p \in {"owner", "revoke"} => r \in Refreshes,
           p = "issue" => r \in Registrations \cup Logins,
           p = "issue" /\ r \in Registrations => \A c \in Claims : Email[c] # Email[r]
    PROVE  AccountInv'
<1> USE DEF AccountInv
<1>1. p \in Working \cup Ends /\ p # "done" /\ p # "new"
  BY DEF Working, Ends
<1>2. TypeOK'
  BY <1>1, RequestMoves DEF TypeOK
<1>3. \A q \in Requests : /\ EmailOf(q)' = EmailOf(q)
                          /\ TokenOf(q)' = TokenOf(q)
                          /\ request'[q].pc = IF q = r THEN p ELSE request[q].pc
  BY <1>1, RequestMoves
<1>4. RightHandler'
  BY <1>1, <1>3, Kinds DEF RightHandler
<1>5. PresentedWasIssued'
  BY <1>1, <1>3, Kinds DEF PresentedWasIssued, At
<1>6. TokenAfterIssue'
  BY <1>1, <1>3, Kinds DEF TokenAfterIssue, At
<1>7. RevokedBeforeIssue'
  BY <1>1, <1>3, Kinds DEF RevokedBeforeIssue, At
<1>8. RotatedOut'
  BY <1>3, Kinds DEF RotatedOut
<1>9. AccountHasSession' /\ DisabledHasAccount'
  BY DEF AccountHasSession, DisabledHasAccount, AccountsOf
<1>10. EmailClaimedOnce'
  <2>1. \/ Claims' \subseteq Claims
        \/ Claims' \subseteq Claims \cup {r} /\ p = "issue" /\ r \in Registrations
    BY <1>3, Kinds DEF Claims, At
  <2> QED
    BY <2>1 DEF EmailClaimedOnce
<1> QED
  BY <1>2, <1>4, <1>5, <1>6, <1>7, <1>8, <1>9, <1>10

LEMMA PresentKeeps ==
    ASSUME AccountInv, NEW r \in Refreshes \cup Logouts, At(r, "new"), Present(r),
           UNCHANGED <<accounts, disabled, tokens, keys>>
    PROVE  AccountInv'
<1> USE DEF AccountInv
<1>1. PICK t \in Issuers :
         /\ At(t, "done")
         /\ request' = [request EXCEPT ![r] = [pc |-> "check", email |-> EmailOf(t), token |-> t]]
  BY DEF Present
<1>2. /\ \A q \in Requests : q # r => request'[q] = request[q]
      /\ request'[r] = [pc |-> "check", email |-> EmailOf(t), token |-> t]
  BY <1>1, Kinds DEF TypeOK
<1>3. TypeOK'
  BY <1>1, Kinds DEF TypeOK, EmailOf, Working
<1>4. RightHandler'
  BY <1>2, Kinds, KindAssumption DEF RightHandler, EmailOf
<1>5. PresentedWasIssued'
  BY <1>1, <1>2, Kinds DEF PresentedWasIssued, TokenAfterIssue, TokenOf, At
<1>6. TokenAfterIssue' /\ RevokedBeforeIssue' /\ RotatedOut'
  <2>1. r \in Issuers => tokens[r] = "none"
    BY DEF TokenAfterIssue, At, Ends
  <2> QED
    BY <1>2, <2>1, Kinds DEF TokenAfterIssue, RevokedBeforeIssue, RotatedOut, TokenOf, At
<1>7. AccountHasSession' /\ DisabledHasAccount'
  BY DEF AccountHasSession, DisabledHasAccount, AccountsOf
<1>8. EmailClaimedOnce'
  <2>1. Claims' \subseteq Claims
    BY <1>2, Kinds DEF Claims, At
  <2> QED
    BY <2>1 DEF EmailClaimedOnce
<1> QED
  BY <1>3, <1>4, <1>5, <1>6, <1>7, <1>8

(* The commit of a session, and of the account with it *)
LEMMA IssueKeeps ==
    ASSUME AccountInv, NEW r \in Requests, IssueTokens(r)
    PROVE  AccountInv'
<1> USE DEF AccountInv
<1>1. PICK end \in Ends : Proceed(r, end)
  BY DEF IssueTokens
<1>2. /\ At(r, "issue") /\ UNCHANGED <<disabled, keys>>
      /\ tokens' = [tokens EXCEPT ![r] = "live"]
      /\ accounts' = accounts \cup ({r} \cap Registrations)
  BY DEF IssueTokens
<1>3. r \in Issuers /\ tokens[r] = "none"
  BY <1>2 DEF RightHandler, TokenAfterIssue, At, Ends
<1>4. /\ \A t \in Issuers : tokens'[t] = IF t = r THEN "live" ELSE tokens[t]
      /\ tokens' \in [Issuers -> {"none", "live", "expired", "revoked"}]
  BY <1>2, <1>3 DEF TypeOK
<1>5. TypeOK'
  BY <1>1, <1>2, <1>4, RequestMoves DEF TypeOK
<1>6. \A q \in Requests : /\ EmailOf(q)' = EmailOf(q)
                          /\ TokenOf(q)' = TokenOf(q)
                          /\ request'[q].pc = IF q = r THEN end ELSE request[q].pc
  BY <1>1, RequestMoves
<1>7. RightHandler'
  BY <1>3, <1>6, Kinds DEF RightHandler, Ends
<1>8. PresentedWasIssued'
  BY <1>2, <1>4, <1>6, Kinds DEF PresentedWasIssued, At
<1>9. TokenAfterIssue'
  BY <1>4, <1>6, Kinds DEF TokenAfterIssue, At
<1>10. RevokedBeforeIssue' /\ RotatedOut'
  <2>1. \A q \in Refreshes : tokens[TokenOf(q)] = "revoked" /\ ~ At(q, "new")
                                => tokens'[TokenOf(q)] = "revoked"
    BY <1>3, <1>4, Kinds DEF PresentedWasIssued
  <2>2. RevokedBeforeIssue'
    BY <1>6, <2>1, Kinds DEF RevokedBeforeIssue, At, Ends
  <2>3. \A q \in Refreshes : tokens'[q] # "none" => tokens[TokenOf(q)] = "revoked" /\ ~ At(q, "new")
    BY <1>2, <1>4, Kinds DEF RevokedBeforeIssue, RotatedOut, TokenAfterIssue, At, Ends
  <2> QED
    BY <1>6, <2>1, <2>2, <2>3, Kinds DEF RotatedOut
<1>11. AccountHasSession'
  BY <1>2, <1>3, <1>4, Kinds DEF AccountHasSession
<1>12. DisabledHasAccount'
  BY <1>2 DEF DisabledHasAccount, AccountsOf
<1>13. EmailClaimedOnce'
  <2>1. Claims' \subseteq Claims
    BY <1>2, <1>6, Kinds DEF Claims, At, Ends
  <2> QED
    BY <2>1 DEF EmailClaimedOnce
<1> QED
  BY <1>5, <1>7, <1>8, <1>9, <1>10, <1>11, <1>12, <1>13

(* The commits that end a session *)
LEMMA EndKeeps ==
    ASSUME AccountInv, NEW r \in Refreshes \cup Logouts, RevokeToken(r) \/ Logout(r)
    PROVE  AccountInv'
<1> USE DEF AccountInv
<1>1. PICK p \in {"issue", "over"} : Proceed(r, p) /\ (p = "issue" => r \in Refreshes)
  <2>1. RevokeToken(r) => Proceed(r, "issue") /\ r \in Refreshes
    BY Kinds DEF RevokeToken, RightHandler, At
  <2>2. Logout(r) => Proceed(r, "over")
    BY DEF Logout
  <2> QED
    BY <2>1, <2>2
<1>2. /\ ~ At(r, "new") /\ request[r].pc \notin Ends
      /\ tokens' = [tokens EXCEPT ![TokenOf(r)] = "revoked"]
      /\ UNCHANGED <<accounts, disabled, keys>>
  BY DEF RevokeToken, Logout, At, Ends
<1>3. TokenOf(r) \in Issuers /\ tokens[TokenOf(r)] # "none"
  BY <1>2 DEF PresentedWasIssued
<1>4. /\ \A t \in Issuers : tokens'[t] = IF t = TokenOf(r) THEN "revoked" ELSE tokens[t]
      /\ tokens' \in [Issuers -> {"none", "live", "expired", "revoked"}]
  BY <1>2, <1>3 DEF TypeOK
<1>5. p \in Working \cup Ends /\ p # "new" /\ p # "done" /\ r \in Requests
  BY Kinds DEF Working, Ends
<1>6. TypeOK'
  BY <1>1, <1>2, <1>4, <1>5, RequestMoves DEF TypeOK
<1>7. \A q \in Requests : /\ EmailOf(q)' = EmailOf(q)
                          /\ TokenOf(q)' = TokenOf(q)
                          /\ request'[q].pc = IF q = r THEN p ELSE request[q].pc
  BY <1>1, <1>5, RequestMoves
<1>8. RightHandler'
  BY <1>1, <1>5, <1>7, Kinds DEF RightHandler
<1>9. PresentedWasIssued'
  BY <1>2, <1>4, <1>7, Kinds DEF PresentedWasIssued, At
<1>10. \A t \in Issuers : tokens'[t] # "none" <=> tokens[t] # "none"
  BY <1>3, <1>4
<1>11. TokenAfterIssue'
  BY <1>2, <1>5, <1>7, <1>10, Kinds DEF TokenAfterIssue, At
<1>12. RevokedBeforeIssue' /\ RotatedOut'
  <2>1. \A q \in Refreshes : ~ At(q, "new") => TokenOf(q) \in Issuers
    BY DEF PresentedWasIssued
  <2>2. RevokedBeforeIssue'
    BY <1>3, <1>4, <1>7, <2>1, Kinds DEF RevokedBeforeIssue, At
  <2>3. \A q \in Refreshes : tokens'[q] # "none" => ~ At(q, "new") /\ tokens[TokenOf(q)] = "revoked"
    BY <1>10, Kinds DEF RotatedOut, TokenAfterIssue, At, Ends
  <2> QED
    BY <1>4, <1>7, <2>1, <2>2, <2>3, Kinds DEF RotatedOut
<1>13. AccountHasSession' /\ DisabledHasAccount'
  BY <1>2, <1>10, Kinds DEF AccountHasSession, DisabledHasAccount, AccountsOf
<1>14. EmailClaimedOnce'
  <2>1. Claims' \subseteq Claims
    BY <1>1, <1>2, <1>7, Kinds DEF Claims, At
  <2> QED
    BY <2>1 DEF EmailClaimedOnce
<1> QED
  BY <1>6, <1>8, <1>9, <1>11, <1>12, <1>13, <1>14

LEMMA ExpireKeeps ==
    ASSUME AccountInv, NEW t \in Issuers, ExpireToken(t)
    PROVE  AccountInv'
<1> USE DEF AccountInv
<1>1. /\ tokens[t] = "live" /\ UNCHANGED <<accounts, disabled, keys, request>>
      /\ \A u \in Issuers : tokens'[u] = IF u = t THEN "expired" ELSE tokens[u]
      /\ tokens' \in [Issuers -> {"none", "live", "expired", "revoked"}]
  BY DEF ExpireToken, TypeOK
<1>2. \A u \in Issuers : /\ tokens'[u] # "none" <=> tokens[u] # "none"
                         /\ tokens'[u] = "revoked" <=> tokens[u] = "revoked"
  BY <1>1
<1>3. TypeOK' /\ RightHandler'
  BY <1>1 DEF TypeOK, RightHandler, EmailOf
<1>4. PresentedWasIssued' /\ TokenAfterIssue'
  BY <1>1, <1>2 DEF PresentedWasIssued, TokenAfterIssue, At, TokenOf
<1>5. \A q \in Refreshes : ~ At(q, "new") => TokenOf(q) \in Issuers
  BY DEF PresentedWasIssued
<1>6. RevokedBeforeIssue' /\ RotatedOut'
  <2>1. \A q \in Refreshes : tokens[q] # "none" => ~ At(q, "new")
    BY Kinds DEF TokenAfterIssue, At, Ends
  <2> QED
    BY <1>1, <1>2, <1>5, <2>1, Kinds DEF RevokedBeforeIssue, RotatedOut, At, TokenOf
<1>7. AccountHasSession' /\ DisabledHasAccount' /\ EmailClaimedOnce'
  BY <1>1, <1>2, Kinds
  DEF AccountHasSession, DisabledHasAccount, AccountsOf, EmailClaimedOnce, Claims, At
<1> QED
  BY <1>3, <1>4, <1>6, <1>7

LEMMA ActiveKeeps ==
    ASSUME AccountInv, NEW e \in Emails, ChangeActive(e)
    PROVE  AccountInv'
<1> USE DEF AccountInv
<1>1. AccountsOf(e) # {} /\ UNCHANGED <<accounts, tokens, keys, request>>
  BY DEF ChangeActive
<1>2. disabled' \subseteq disabled \cup {e}
  BY DEF ChangeActive
<1>3. TypeOK'
  BY <1>1, <1>2 DEF TypeOK
<1>4. DisabledHasAccount'
  BY <1>1, <1>2 DEF DisabledHasAccount, AccountsOf
<1> QED
  BY <1>1, <1>3, <1>4
  DEF RightHandler, PresentedWasIssued, TokenAfterIssue, RevokedBeforeIssue, RotatedOut,
      AccountHasSession, EmailClaimedOnce, Claims, At, EmailOf, TokenOf

LEMMA AccountStep ==
    AccountInv /\ [Next]_vars => AccountInv'
<1> SUFFICES ASSUME AccountInv, [Next]_vars PROVE AccountInv'
  OBVIOUS
<1> USE DEF AccountInv
<1>1. ASSUME NEW r \in Requests, Arrive(r) PROVE AccountInv'
  <2>1. At(r, "new") /\ request[r].pc \notin Ends /\ UNCHANGED <<accounts, disabled, tokens, keys>>
    BY <1>1 DEF Arrive, At, Ends
  <2>2. CASE r \in Refreshes \cup Logouts /\ Present(r)
    BY <2>1, <2>2, PresentKeeps
  <2>3. CASE r \notin Refreshes /\ r \notin Logouts /\ Proceed(r, "check")
    BY <2>1, <2>3, MoveKeeps DEF TypeOK
  <2>4. r \in Registrations \cup Logins \cup Creations => r \notin Refreshes /\ r \notin Logouts
    BY KindAssumption
  <2> QED
    BY <1>1, <2>2, <2>3, <2>4 DEF Arrive
<1>2. ASSUME NEW r \in Requests, CheckEmail(r) \/ CheckName(r) \/ InsertKey(r) \/ FailRequest(r)
      PROVE  AccountInv'
  <2>1. \E p \in {"insert", "over"} : Proceed(r, p)
    BY <1>2 DEF CheckEmail, CheckName, InsertKey, FailRequest
  <2>2. ~ At(r, "new") /\ request[r].pc \notin Ends /\ UNCHANGED <<accounts, disabled, tokens>>
    BY <1>2 DEF CheckEmail, CheckName, InsertKey, FailRequest, At, Ends, Working
  <2>3. keys' \subseteq Creations
    BY <1>2 DEF CheckEmail, CheckName, InsertKey, FailRequest, TypeOK
  <2> QED
    BY <2>1, <2>2, <2>3, MoveKeeps
<1>3. ASSUME NEW r \in Requests, InsertAccount(r) PROVE AccountInv'
  <2>1. /\ r \in Registrations /\ ~ At(r, "new") /\ request[r].pc \notin Ends
        /\ UNCHANGED <<accounts, disabled, tokens, keys>>
    BY <1>3 DEF InsertAccount, At, Ends
  <2>2. CASE Proceed(r, "over")
    BY <2>1, <2>2, MoveKeeps DEF TypeOK
  <2>3. CASE AccountsOf(EmailOf(r)) = {} /\ Proceed(r, "issue")
    <3>1. \A c \in Claims : Email[c] # Email[r]
      BY <1>3, <2>1, <2>3 DEF InsertAccount, Claims, AccountsOf, RightHandler
    <3> QED
      BY <2>1, <2>3, <3>1, MoveKeeps DEF TypeOK
  <2> QED
    BY <1>3, <2>2, <2>3 DEF InsertAccount
<1>4. ASSUME NEW r \in Requests, CheckLogin(r) PROVE AccountInv'
  <2>1. /\ r \in Logins /\ r \notin Registrations /\ ~ At(r, "new") /\ request[r].pc \notin Ends
        /\ UNCHANGED <<accounts, disabled, tokens, keys>>
    BY <1>4, Kinds DEF CheckLogin, At, Ends
  <2>2. \E p \in {"issue", "over"} : Proceed(r, p)
    BY <1>4 DEF CheckLogin
  <2> QED
    BY <2>1, <2>2, MoveKeeps DEF TypeOK
<1>5. ASSUME NEW r \in Requests, ReadToken(r) \/ CheckOwner(r) PROVE AccountInv'
  <2>1. /\ r \in Refreshes /\ ~ At(r, "new") /\ request[r].pc \notin Ends
        /\ UNCHANGED <<accounts, disabled, tokens, keys>>
    BY <1>5 DEF ReadToken, CheckOwner, At, Ends, RightHandler
  <2>2. \E p \in {"owner", "revoke", "over"} : Proceed(r, p)
    BY <1>5 DEF ReadToken, CheckOwner
  <2> QED
    BY <2>1, <2>2, MoveKeeps DEF TypeOK
<1>6. ASSUME NEW r \in Requests, RevokeToken(r) \/ Logout(r) PROVE AccountInv'
  <2>1. r \in Refreshes \cup Logouts
    BY <1>6 DEF RevokeToken, Logout, At, RightHandler
  <2> QED
    BY <1>6, <2>1, EndKeeps
<1>7. CASE UNCHANGED vars
  BY <1>7
  DEF vars, TypeOK, RightHandler, PresentedWasIssued, TokenAfterIssue, RevokedBeforeIssue,
      RotatedOut, AccountHasSession, EmailClaimedOnce, DisabledHasAccount, AccountsOf, Claims, At,
      EmailOf, TokenOf
<1> QED
  BY <1>1, <1>2, <1>3, <1>4, <1>5, <1>6, <1>7, IssueKeeps, ExpireKeeps, ActiveKeeps DEF Next

LEMMA AccountStart ==
    Init => AccountInv
<1> SUFFICES ASSUME Init PROVE AccountInv
  OBVIOUS
<1>1. TypeOK
  BY EmailAssumption DEF Init, TypeOK, Requests, Issuers
<1>2. \A r \in Requests : At(r, "new")
  BY DEF Init, At
<1>3. RightHandler
  BY <1>2, KindAssumption DEF Init, RightHandler, At, EmailOf, Requests, Issuers
<1>4. \A t \in Issuers : tokens[t] = "none"
  BY DEF Init
<1>5. PresentedWasIssued /\ TokenAfterIssue /\ RevokedBeforeIssue /\ RotatedOut
  BY <1>2, <1>4, Kinds
  DEF PresentedWasIssued, TokenAfterIssue, RevokedBeforeIssue, RotatedOut, At
<1>6. AccountHasSession /\ DisabledHasAccount
  BY <1>4, Kinds DEF Init, AccountHasSession, DisabledHasAccount
<1>7. EmailClaimedOnce
  BY <1>2, Kinds DEF Init, EmailClaimedOnce, Claims, At
<1> QED
  BY <1>1, <1>3, <1>5, <1>6, <1>7 DEF AccountInv

THEOREM AccountInvariant ==
    Spec => []AccountInv
<1> QED
  BY AccountStart, AccountStep, PTL DEF Spec

-----------------------------------------------------------------------------
(* The properties *)

(* Every variable stays in its type. *)
THEOREM AccountTypes == Spec => []TypeOK
<1>1. AccountInv => TypeOK
  BY DEF AccountInv
<1> QED
  BY <1>1, AccountInvariant, PTL

(* Registrations that found one email free, in whatever interleaving, end  *)
(* with one account.                                                       *)
THEOREM EmailIsUnique == Spec => []OneAccountPerEmail
<1>1. AccountInv => OneAccountPerEmail
  <2> SUFFICES ASSUME AccountInv, NEW e \in Emails PROVE Cardinality(AccountsOf(e)) <= 1
    BY DEF OneAccountPerEmail
  <2>1. CASE AccountsOf(e) = {}
    BY <2>1, FS_EmptySet
  <2>2. CASE AccountsOf(e) # {}
    <3>1. PICK a \in AccountsOf(e) : TRUE
      BY <2>2
    <3>2. AccountsOf(e) = {a}
      BY <3>1 DEF AccountInv, EmailClaimedOnce, Claims, AccountsOf
    <3> QED
      BY <3>2, FS_Singleton
  <2> QED
    BY <2>1, <2>2
<1> QED
  BY <1>1, AccountInvariant, PTL

(* An account is committed with its first session, or not at all. *)
THEOREM AccountsHaveSessions == Spec => []AccountHasSession
<1>1. AccountInv => AccountHasSession
  BY DEF AccountInv
<1> QED
  BY <1>1, AccountInvariant, PTL

(* A refresh never leaves two sessions of one token. *)
THEOREM TokensRotate == Spec => []RotatedOut
<1>1. AccountInv => RotatedOut
  BY DEF AccountInv
<1> QED
  BY <1>1, AccountInvariant, PTL

-----------------------------------------------------------------------------
(* What one step may do to a request and to its tokens *)

Renewing == {"owner", "revoke", "issue"}

LEMMA TokenMoves ==
    ASSUME AccountInv, [Next]_vars, NEW t \in Issuers
    PROVE  /\ tokens[t] = "revoked" => tokens'[t] = "revoked"
           /\ tokens[t] # "none" => tokens'[t] # "none"
           /\ tokens[t] = "none" /\ tokens'[t] # "none" => At(t, "issue")
<1> USE DEF AccountInv
<1>1. ASSUME NEW r \in Requests, IssueTokens(r)
      PROVE  /\ \A u \in Issuers \ {r} : tokens'[u] = tokens[u]
             /\ At(r, "issue")
             /\ r \in Issuers => tokens[r] = "none" /\ tokens'[r] = "live"
  BY <1>1 DEF IssueTokens, TokenAfterIssue, At, Ends, TypeOK
<1>2. ASSUME NEW r \in Requests, RevokeToken(r) \/ Logout(r)
      PROVE  /\ \A u \in Issuers : u # TokenOf(r) => tokens'[u] = tokens[u]
             /\ tokens[TokenOf(r)] # "none"
             /\ TokenOf(r) \in Issuers => tokens'[TokenOf(r)] = "revoked"
  BY <1>2 DEF RevokeToken, Logout, PresentedWasIssued, RightHandler, At, TypeOK
<1>3. ASSUME NEW u \in Issuers, ExpireToken(u)
      PROVE  /\ \A v \in Issuers \ {u} : tokens'[v] = tokens[v]
             /\ tokens[u] = "live" /\ tokens'[u] = "expired"
  BY <1>3 DEF ExpireToken, TypeOK
<1>4. CASE tokens' = tokens
  BY <1>4
<1> QED
  BY <1>1, <1>2, <1>3, <1>4
  DEF Next, vars, Arrive, CheckEmail, InsertAccount, CheckLogin, ReadToken, CheckOwner, CheckName,
      InsertKey, FailRequest, ChangeActive

(* A request keeps its token and its email, and gets to a later step only  *)
(* past the check before it.                                               *)
LEMMA RefreshMoves ==
    ASSUME AccountInv, [Next]_vars, NEW q \in Refreshes
    PROVE  /\ ~ At(q, "new") => TokenOf(q)' = TokenOf(q) /\ EmailOf(q)' = EmailOf(q)
           /\ request'[q].pc \in Renewing =>
                 /\ ~ At(q, "new")
                 /\ request[q].pc \in Renewing \/ tokens[TokenOf(q)] = "live"
           /\ request'[q].pc \in {"revoke", "issue"} =>
                 request[q].pc \in {"revoke", "issue"} \/ EmailOf(q) \notin disabled
<1> USE DEF AccountInv
<1> DEFINE Goal == /\ ~ At(q, "new") => TokenOf(q)' = TokenOf(q) /\ EmailOf(q)' = EmailOf(q)
                   /\ request'[q].pc \in Renewing =>
                         /\ ~ At(q, "new")
                         /\ request[q].pc \in Renewing \/ tokens[TokenOf(q)] = "live"
                   /\ request'[q].pc \in {"revoke", "issue"} =>
                         request[q].pc \in {"revoke", "issue"} \/ EmailOf(q) \notin disabled
<1>0. q \in Requests
  BY Kinds
<1>1. ASSUME request'[q] = request[q] PROVE Goal
  BY <1>1, <1>0 DEF At, TokenOf, EmailOf, Renewing, PresentedWasIssued
<1>2. ASSUME NEW r \in Requests, r # q, NEW p \in Working \cup Ends, Proceed(r, p)
      PROVE  request'[q] = request[q]
  BY <1>0, <1>2 DEF Proceed, TypeOK
<1>3. ASSUME NEW p \in Working \cup Ends, Proceed(q, p)
      PROVE  TokenOf(q)' = TokenOf(q) /\ EmailOf(q)' = EmailOf(q) /\ request'[q].pc = p
  BY <1>0, <1>3, RequestMoves
<1>4. ASSUME NEW r \in Requests, Arrive(r) PROVE Goal
  <2>1. CASE Proceed(r, "check")
    BY <1>1, <1>2, <1>3, <2>1 DEF Renewing, Working
  <2>2. CASE Present(r)
    <3>1. r # q => request'[q] = request[q]
      BY <1>0, <2>2 DEF Present, TypeOK
    <3>2. r = q => At(q, "new") /\ request'[q].pc = "check"
      BY <1>0, <1>4, <2>2 DEF Present, Arrive, TypeOK
    <3> QED
      BY <1>1, <3>1, <3>2 DEF Renewing
  <2> QED
    BY <1>4, <2>1, <2>2 DEF Arrive
<1>5. ASSUME NEW r \in Requests, ReadToken(r) PROVE Goal
  BY <1>1, <1>2, <1>3, <1>5 DEF ReadToken, Renewing, Working, Ends, At
<1>6. ASSUME NEW r \in Requests, CheckOwner(r) PROVE Goal
  BY <1>1, <1>2, <1>3, <1>6 DEF CheckOwner, Renewing, Working, Ends, At
<1>7. ASSUME NEW r \in Requests, RevokeToken(r) PROVE Goal
  BY <1>1, <1>2, <1>3, <1>7 DEF RevokeToken, Renewing, Working, Ends, At
<1>8. ASSUME NEW r \in Requests, IssueTokens(r) \/ FailRequest(r) PROVE Goal
  <2>1. \E p \in Ends : Proceed(r, p)
    BY <1>8 DEF IssueTokens, FailRequest, Ends
  <2>2. ~ At(r, "new")
    BY <1>8 DEF IssueTokens, FailRequest, At, Working
  <2> QED
    BY <1>1, <1>2, <1>3, <2>1, <2>2 DEF Renewing, Ends
<1>9. ASSUME NEW r \in Requests, r # q, \E p \in Working \cup Ends : Proceed(r, p) PROVE Goal
  BY <1>1, <1>2, <1>9
<1>10. ASSUME NEW r \in Requests,
              \/ CheckEmail(r) \/ InsertAccount(r) \/ CheckLogin(r) \/ Logout(r) \/ CheckName(r)
              \/ InsertKey(r)
       PROVE  Goal
  <2>1. r # q
    BY <1>10, KindAssumption
    DEF CheckEmail, InsertAccount, CheckLogin, Logout, CheckName, InsertKey
  <2>2. \E p \in Working \cup Ends : Proceed(r, p)
    BY <1>10
    DEF CheckEmail, InsertAccount, CheckLogin, Logout, CheckName, InsertKey, Working, Ends
  <2> QED
    BY <1>9, <2>1, <2>2
<1>11. ASSUME request' = request PROVE Goal
  BY <1>1, <1>11
<1> HIDE DEF Goal
<1>12. Goal
  BY <1>4, <1>5, <1>6, <1>7, <1>8, <1>10, <1>11 DEF Next, vars, ExpireToken, ChangeActive
<1> QED
  BY <1>12 DEF Goal

(* Of a token that is revoked, once the refreshes that read it before are  *)
(* over, comes nothing more.                                               *)
THEOREM RevocationIsFinal == Spec => RevokedIsFinal
<1>1. ASSUME AccountInv, [Next]_vars, NEW t \in Issuers, Spent(t)
      PROVE  Spent(t)' /\ Successors(t)' = Successors(t)
  <2> USE DEF AccountInv
  <2>1. tokens[t] = "revoked" /\ tokens'[t] = "revoked"
    BY <1>1, TokenMoves DEF Spent
  <2>2. \A r \in Refreshes : TokenOf(r)' = t => request'[r].pc \notin Renewing
    BY <1>1, <2>1, RefreshMoves DEF Spent, Renewing
  <2>3. Spent(t)'
    BY <2>1, <2>2 DEF Spent, Renewing
  <2>4. ASSUME NEW r \in Refreshes
        PROVE  TokenOf(r)' = t /\ tokens'[r] # "none" <=> TokenOf(r) = t /\ tokens[r] # "none"
    <3>1. tokens[r] # "none" => ~ At(r, "new")
      BY Kinds, <1>1 DEF TokenAfterIssue, At, Ends
    <3>2. tokens[r] = "none" /\ tokens'[r] # "none" => At(r, "issue") /\ TokenOf(r) # t
      BY Kinds, <1>1, TokenMoves DEF Spent, At
    <3>3. tokens[r] # "none" => tokens'[r] # "none"
      BY Kinds, <1>1, TokenMoves
    <3>4. ~ At(r, "new") => TokenOf(r)' = TokenOf(r)
      BY <1>1, RefreshMoves
    <3> QED
      BY <3>1, <3>2, <3>3, <3>4 DEF At
  <2> QED
    BY <2>3, <2>4 DEF Successors
<1>2. AccountInv /\ [Next]_vars =>
        [\A t \in Issuers : Spent(t) => Spent(t)' /\ Successors(t)' = Successors(t)]_vars
  BY <1>1
<1> QED
  BY <1>2, AccountInvariant, PTL DEF Spec, RevokedIsFinal

-----------------------------------------------------------------------------

LEMMA LoginMoves ==
    ASSUME AccountInv, [Next]_vars, NEW q \in Logins
    PROVE  /\ EmailOf(q)' = EmailOf(q)
           /\ At(q, "issue")' => At(q, "issue") \/ EmailOf(q) \notin disabled
<1> USE DEF AccountInv
<1>0. q \in Requests /\ RightHandler'
  BY Kinds, AccountStep
<1>1. EmailOf(q)' = EmailOf(q)
  BY <1>0 DEF RightHandler
<1>2. ASSUME At(q, "issue")', ~ At(q, "issue") PROVE EmailOf(q) \notin disabled
  <2>1. \A r \in Requests : r # q /\ (\E p \in Working \cup Ends : Proceed(r, p))
                               => request'[q] = request[q]
    BY <1>0 DEF Proceed, TypeOK
  <2>2. \A p \in Working \cup Ends : Proceed(q, p) => request'[q].pc = p
    BY <1>0, RequestMoves
  <2>3. request'[q] # request[q]
    BY <1>2 DEF At
  <2>4. ASSUME NEW r \in Requests, Arrive(r) PROVE FALSE
    <3>1. r \notin Refreshes /\ r \notin Logouts => Proceed(r, "check")
      BY <2>4 DEF Arrive
    <3>2. r \in Refreshes \cup Logouts => r # q
      BY KindAssumption
    <3>3. Present(r) => request'[q] = request[q] \/ r = q
      BY <1>0 DEF Present, TypeOK
    <3> QED
      BY <1>2, <2>1, <2>2, <2>3, <2>4, <3>1, <3>2, <3>3 DEF Arrive, At, Working
  <2>5. ASSUME NEW r \in Requests,
               \/ CheckEmail(r) \/ InsertAccount(r) \/ ReadToken(r) \/ Logout(r) \/ CheckName(r)
               \/ InsertKey(r) \/ CheckOwner(r) \/ RevokeToken(r)
        PROVE  FALSE
    <3>1. r # q
      BY <2>5, KindAssumption
      DEF CheckEmail, InsertAccount, ReadToken, Logout, CheckName, InsertKey, CheckOwner,
          RevokeToken, RightHandler, At
    <3>2. \E p \in Working \cup Ends : Proceed(r, p)
      BY <2>5
      DEF CheckEmail, InsertAccount, ReadToken, Logout, CheckName, InsertKey, CheckOwner,
          RevokeToken, Working, Ends
    <3> QED
      BY <2>1, <2>3, <3>1, <3>2
  <2>6. ASSUME NEW r \in Requests, IssueTokens(r) \/ FailRequest(r) PROVE FALSE
    <3>1. \E p \in Ends : Proceed(r, p)
      BY <2>6 DEF IssueTokens, FailRequest, Ends
    <3> QED
      BY <1>2, <2>1, <2>2, <2>3, <3>1 DEF At, Ends
  <2>7. ASSUME NEW r \in Requests, CheckLogin(r) PROVE EmailOf(q) \notin disabled
    <3>1. \E p \in {"issue", "over"} : Proceed(r, p) /\ (p = "issue" => EmailOf(r) \notin disabled)
      BY <2>7 DEF CheckLogin
    <3> QED
      BY <1>2, <2>1, <2>2, <2>3, <3>1 DEF At, Working, Ends
  <2> QED
    BY <2>3, <2>4, <2>5, <2>6, <2>7 DEF Next, vars, ExpireToken, ChangeActive
<1> QED
  BY <1>1, <1>2

(* No handler gives a disabled developer a session, once the requests that *)
(* found the account active are over.                                      *)
THEOREM DisabledStaysOut == Spec => DisabledGetsNothing
<1>1. ASSUME AccountInv, [Next]_vars, NEW e \in Emails, Barred(e), e \in disabled'
      PROVE  /\ Barred(e)'
             /\ \A r \in Issuers : EmailOf(r) = e /\ tokens[r] = "none" => tokens'[r] = "none"
  <2> USE DEF AccountInv
  <2>1. \A r \in Logins : EmailOf(r)' = e => ~ At(r, "issue")'
    BY <1>1, LoginMoves DEF Barred
  <2>2. \A r \in Refreshes : EmailOf(r)' = e => ~ At(r, "revoke")' /\ ~ At(r, "issue")'
    BY <1>1, RefreshMoves DEF Barred, Renewing, At
  <2>3. ASSUME NEW r \in Issuers, EmailOf(r) = e, tokens[r] = "none", At(r, "issue") PROVE FALSE
    <3>1. r \in Registrations
      BY <1>1, <2>3 DEF Barred, Issuers
    <3>2. PICK a \in accounts : Email[a] = e
      BY <1>1 DEF Barred, DisabledHasAccount, AccountsOf
    <3>3. Email[r] = e /\ a = r
      BY <1>1, <2>3, <3>1, <3>2 DEF RightHandler, EmailClaimedOnce, Claims
    <3> QED
      BY <1>1, <2>3, <3>1, <3>3 DEF AccountHasSession
  <2> QED
    BY <1>1, <2>1, <2>2, <2>3, TokenMoves DEF Barred
<1>2. AccountInv /\ [Next]_vars =>
        [\A e \in Emails : Barred(e) /\ e \in disabled' =>
            /\ Barred(e)'
            /\ \A r \in Issuers : EmailOf(r) = e /\ tokens[r] = "none" => tokens'[r] = "none"]_vars
  BY <1>1
<1> QED
  BY <1>2, AccountInvariant, PTL DEF Spec, DisabledGetsNothing

(* A name that is taken, with no creation of it past its check, gets no    *)
(* second key.                                                             *)
THEOREM NamesAreTaken == Spec => NameStaysTaken
<1>1. ASSUME AccountInv, [Next]_vars, NEW c \in Creations, NameClosed(c)
      PROVE  NameClosed(c)' /\ KeysNamed(c)' = KeysNamed(c)
  <2> USE DEF AccountInv
  <2> DEFINE Same == {r \in Creations : Email[r] = Email[c] /\ Name[r] = Name[c]}
  <2>1. KeysNamed(c) # {} /\ \A r \in Same : KeysNamed(r) = KeysNamed(c) /\ ~ At(r, "insert")
    BY <1>1 DEF NameClosed, KeysNamed
  <2>2. KeysNamed(c)' = KeysNamed(c)
    <3>1. CASE keys' = keys
      BY <3>1 DEF KeysNamed
    <3>2. ASSUME NEW r \in Requests, InsertKey(r) PROVE KeysNamed(c)' = KeysNamed(c)
      BY <2>1, <3>2 DEF InsertKey, KeysNamed
    <3> QED
      BY <1>1, <3>1, <3>2
      DEF Next, vars, Arrive, CheckEmail, InsertAccount, CheckLogin, IssueTokens, ReadToken,
          CheckOwner, RevokeToken, Logout, CheckName, FailRequest, ExpireToken, ChangeActive
  <2>3. ASSUME NEW q \in Same, At(q, "insert")' PROVE FALSE
    <3>0. q \in Requests /\ q \in Creations
      BY Kinds
    <3>1. \A r \in Requests : r # q /\ (\E p \in Working \cup Ends : Proceed(r, p))
                                 => request'[q] = request[q]
      BY <1>1, <3>0 DEF Proceed, TypeOK
    <3>2. \A p \in Working \cup Ends : Proceed(q, p) => request'[q].pc = p
      BY <1>1, <3>0, RequestMoves
    <3>3. request'[q] # request[q] /\ request'[q].pc = "insert"
      BY <2>1, <2>3 DEF At
    <3>4. ASSUME NEW r \in Requests, NEW p \in (Working \cup Ends) \ {"insert"}, Proceed(r, p)
          PROVE  FALSE
      BY <3>1, <3>2, <3>3, <3>4
    <3>5. ASSUME NEW r \in Requests, Arrive(r) PROVE FALSE
      <4>1. CASE Proceed(r, "check")
        BY <3>4, <4>1 DEF Working
      <4>2. Present(r) => request'[q] = request[q] \/ request'[q].pc = "check"
        BY <1>1, <3>0 DEF Present, TypeOK
      <4> QED
        BY <3>3, <3>5, <4>1, <4>2 DEF Arrive
    <3>6. ASSUME NEW r \in Requests,
                 \/ InsertAccount(r) \/ CheckLogin(r) \/ IssueTokens(r) \/ ReadToken(r)
                 \/ CheckOwner(r) \/ RevokeToken(r) \/ Logout(r) \/ InsertKey(r) \/ FailRequest(r)
          PROVE  FALSE
      <4>1. \E p \in (Working \cup Ends) \ {"insert"} : Proceed(r, p)
        BY <3>6
        DEF InsertAccount, CheckLogin, IssueTokens, ReadToken, CheckOwner, RevokeToken, Logout,
            InsertKey, FailRequest, Working, Ends
      <4> QED
        BY <3>4, <4>1
    <3>7. ASSUME NEW r \in Requests, CheckEmail(r) PROVE FALSE
      <4>1. r # q /\ \E p \in Working \cup Ends : Proceed(r, p)
        BY <3>0, <3>7, KindAssumption DEF CheckEmail, Working, Ends
      <4> QED
        BY <3>1, <3>3, <4>1
    <3>8. ASSUME NEW r \in Requests, CheckName(r) PROVE FALSE
      <4>1. r = q => Proceed(r, "over")
        BY <2>1, <3>8 DEF CheckName
      <4>2. \E p \in Working \cup Ends : Proceed(r, p)
        BY <3>8 DEF CheckName, Working, Ends
      <4> QED
        BY <3>1, <3>3, <3>4, <4>1, <4>2 DEF Ends
    <3> QED
      BY <1>1, <3>3, <3>5, <3>6, <3>7, <3>8 DEF Next, vars, ExpireToken, ChangeActive
  <2> QED
    BY <2>1, <2>2, <2>3 DEF NameClosed
<1>2. AccountInv /\ [Next]_vars =>
        [\A c \in Creations : NameClosed(c) => NameClosed(c)' /\ KeysNamed(c)' = KeysNamed(c)]_vars
  BY <1>1
<1> QED
  BY <1>2, AccountInvariant, PTL DEF Spec, NameStaysTaken

=============================================================================
