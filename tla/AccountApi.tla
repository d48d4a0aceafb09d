----------------------------- MODULE AccountApi -----------------------------
(***************************************************************************)
(* The auth service's handlers for accounts, sessions and API keys.  Each  *)
(* request has a database session of its own (READ COMMITTED, no locks     *)
(* taken by a SELECT), so what it read may have changed when it writes.    *)
(* An account, a refresh token and an API key are known by the request     *)
(* that inserted the row.                                                  *)
(***************************************************************************)
EXTENDS Naturals, FiniteSets

CONSTANTS
    Emails,
    Registrations, Logins, Refreshes, Logouts,   \* requests, each sent once
    Creations,     \* requests for an API key
    Email,         \* registration, login or creation -> the developer's email
    Name,          \* creation -> the name of its key
    NoEmail, NoToken

Issuers == Registrations \cup Logins \cup Refreshes
Requests == Issuers \cup Logouts \cup Creations

ASSUME EmailAssumption ==
    /\ NoEmail \notin Emails /\ NoToken \notin Issuers
    /\ \A r \in Registrations \cup Logins \cup Creations : Email[r] \in Emails
ASSUME KindAssumption ==
    /\ Registrations \cap (Logins \cup Refreshes \cup Logouts \cup Creations) = {}
    /\ Logins \cap (Refreshes \cup Logouts \cup Creations) = {}
    /\ Refreshes \cap (Logouts \cup Creations) = {}
    /\ Logouts \cap Creations = {}

VARIABLES
    accounts,      \* registrations whose developers row is committed
    disabled,      \* emails whose account is not is_active
    tokens,        \* issuer -> its row of refresh_tokens
    keys,          \* creations whose api_keys row is committed
    request        \* request -> [pc, email, token presented]

vars == <<accounts, disabled, tokens, keys, request>>

Working == {"check", "owner", "insert", "revoke", "issue"}
Ends == {"done", "over"}   \* done: the client has a new token; over: every other end

Init ==
    /\ accounts = {}
    /\ disabled = {}
    /\ tokens = [r \in Issuers |-> "none"]
    /\ keys = {}
    /\ request = [r \in Requests |->
           [pc |-> "new",
            email |-> IF r \in Refreshes \cup Logouts THEN NoEmail ELSE Email[r],
            token |-> NoToken]]

At(r, pc) == request[r].pc = pc
Proceed(r, pc) == request' = [request EXCEPT ![r].pc = pc]
EmailOf(r) == request[r].email
TokenOf(r) == request[r].token
AccountsOf(e) == {a \in accounts : Email[a] = e}
KeysNamed(c) == {k \in keys : Email[k] = Email[c] /\ Name[k] = Name[c]}

(* The client knows a token whose response it received, and keeps it.      *)
Present(r) ==
    \E t \in Issuers :
        /\ At(t, "done")
        /\ request' = [request EXCEPT ![r] = [pc |-> "check", email |-> EmailOf(t), token |-> t]]

Arrive(r) ==
    /\ At(r, "new")
    /\ \/ r \in Registrations \cup Logins /\ Proceed(r, "check")
       \/ r \in Refreshes \cup Logouts /\ Present(r)
       \/ /\ r \in Creations
          /\ \E t \in Issuers : At(t, "done") /\ EmailOf(t) = EmailOf(r)
          /\ Proceed(r, "check")
    /\ UNCHANGED <<accounts, disabled, tokens, keys>>

-----------------------------------------------------------------------------
(* register and login *)

CheckEmail(r) ==
    /\ r \in Registrations
    /\ At(r, "check")
    /\ Proceed(r, IF AccountsOf(EmailOf(r)) # {} THEN "over" ELSE "insert")
    /\ UNCHANGED <<accounts, disabled, tokens, keys>>

(* A slip in InsertAccount: the email is not unique. *)
InsertUnchecked(r) ==
    /\ r \in Registrations
    /\ At(r, "insert")
    /\ Proceed(r, "issue")
    /\ UNCHANGED <<accounts, disabled, tokens, keys>>

(* Another slip: commit instead of flush. *)
InsertCommitted(r) ==
    /\ r \in Registrations
    /\ At(r, "insert")
    /\ AccountsOf(EmailOf(r)) = {}
    /\ accounts' = accounts \cup {r}
    /\ Proceed(r, "issue")
    /\ UNCHANGED <<disabled, tokens, keys>>

(* The flush: the INSERT waits for another one of the same email that is   *)
(* not committed yet, and raises if that one commits.                      *)
InsertAccount(r) ==
    /\ r \in Registrations
    /\ At(r, "insert")
    /\ \A other \in Registrations : At(other, "issue") => EmailOf(other) # EmailOf(r)
    /\ Proceed(r, IF AccountsOf(EmailOf(r)) # {} THEN "over" ELSE "issue")
    /\ UNCHANGED <<accounts, disabled, tokens, keys>>

CheckLogin(r) ==
    /\ r \in Logins
    /\ At(r, "check")
    /\ Proceed(r, IF AccountsOf(EmailOf(r)) # {} /\ EmailOf(r) \notin disabled
                  THEN "issue" ELSE "over")
    /\ UNCHANGED <<accounts, disabled, tokens, keys>>

(* A slip in IssueTokens: every session adds a developer. *)
IssueWithAccount(r) ==
    /\ At(r, "issue")
    /\ tokens' = [tokens EXCEPT ![r] = "live"]
    /\ accounts' = accounts \cup {r}
    /\ Proceed(r, "done")
    /\ UNCHANGED <<disabled, keys>>

(* issue_tokens commits the token, and with it the account that register   *)
(* flushed.  The response may be lost after the commit.                    *)
IssueTokens(r) ==
    /\ At(r, "issue")
    /\ tokens' = [tokens EXCEPT ![r] = "live"]
    /\ accounts' = accounts \cup ({r} \cap Registrations)
    /\ \E end \in Ends : Proceed(r, end)
    /\ UNCHANGED <<disabled, keys>>

-----------------------------------------------------------------------------
(* refresh and logout *)

(* A slip in ReadToken: is_revoked is not looked at. *)
ReadAnyToken(r) ==
    /\ r \in Refreshes
    /\ At(r, "check")
    /\ Proceed(r, IF tokens[TokenOf(r)] = "expired" THEN "over" ELSE "owner")
    /\ UNCHANGED <<accounts, disabled, tokens, keys>>

ReadToken(r) ==
    /\ r \in Refreshes
    /\ At(r, "check")
    /\ Proceed(r, IF tokens[TokenOf(r)] = "live" THEN "owner" ELSE "over")
    /\ UNCHANGED <<accounts, disabled, tokens, keys>>

(* A slip in CheckOwner: is_active is not looked at. *)
CheckAnyOwner(r) ==
    /\ At(r, "owner")
    /\ Proceed(r, "revoke")
    /\ UNCHANGED <<accounts, disabled, tokens, keys>>

(* Another slip: the new session is committed before the old one is ended. *)
CheckAndIssue(r) ==
    /\ At(r, "owner")
    /\ Proceed(r, IF EmailOf(r) \in disabled THEN "over" ELSE "issue")
    /\ UNCHANGED <<accounts, disabled, tokens, keys>>

CheckOwner(r) ==
    /\ At(r, "owner")
    /\ Proceed(r, IF EmailOf(r) \in disabled THEN "over" ELSE "revoke")
    /\ UNCHANGED <<accounts, disabled, tokens, keys>>

(* A commit of its own; the UPDATE does not ask for the old value.         *)
RevokeToken(r) ==
    /\ At(r, "revoke")
    /\ tokens' = [tokens EXCEPT ![TokenOf(r)] = "revoked"]
    /\ Proceed(r, "issue")
    /\ UNCHANGED <<accounts, disabled, keys>>

Logout(r) ==
    /\ r \in Logouts
    /\ At(r, "check")
    /\ tokens' = [tokens EXCEPT ![TokenOf(r)] = "revoked"]
    /\ Proceed(r, "over")
    /\ UNCHANGED <<accounts, disabled, keys>>

-----------------------------------------------------------------------------
(* create_apikey *)

(* A slip in CheckName: only the secret is checked to be new. *)
CheckNothing(r) ==
    /\ r \in Creations
    /\ At(r, "check")
    /\ Proceed(r, "insert")
    /\ UNCHANGED <<accounts, disabled, tokens, keys>>

(* One row of the name: 403.  Two of them: scalar_one_or_none raises. *)
CheckName(r) ==
    /\ r \in Creations
    /\ At(r, "check")
    /\ Proceed(r, IF KeysNamed(r) = {} THEN "insert" ELSE "over")
    /\ UNCHANGED <<accounts, disabled, tokens, keys>>

InsertKey(r) ==
    /\ r \in Creations
    /\ At(r, "insert")
    /\ keys' = keys \cup {r}
    /\ Proceed(r, "over")
    /\ UNCHANGED <<accounts, disabled, tokens>>

-----------------------------------------------------------------------------
(* The database raises or the service stops: what is not committed is      *)
(* rolled back.                                                            *)
FailRequest(r) ==
    /\ request[r].pc \in Working
    /\ Proceed(r, "over")
    /\ UNCHANGED <<accounts, disabled, tokens, keys>>

ExpireToken(t) ==
    /\ tokens[t] = "live"
    /\ tokens' = [tokens EXCEPT ![t] = "expired"]
    /\ UNCHANGED <<accounts, disabled, keys, request>>

(* An operator changes is_active of an account. *)
ChangeActive(e) ==
    /\ AccountsOf(e) # {}
    /\ disabled' = IF e \in disabled THEN disabled \ {e} ELSE disabled \cup {e}
    /\ UNCHANGED <<accounts, tokens, keys, request>>

Next ==
    \/ \E r \in Requests :
          \/ Arrive(r)
          \/ CheckEmail(r)
          \/ InsertAccount(r)
          \/ CheckLogin(r)
          \/ IssueTokens(r)
          \/ ReadToken(r)
          \/ CheckOwner(r)
          \/ RevokeToken(r)
          \/ Logout(r)
          \/ CheckName(r)
          \/ InsertKey(r)
          \/ FailRequest(r)
    \/ \E t \in Issuers : ExpireToken(t)
    \/ \E e \in Emails : ChangeActive(e)

Spec == Init /\ [][Next]_vars

-----------------------------------------------------------------------------
(* Every variable stays in its type. *)
TypeOK ==
    /\ accounts \subseteq Registrations
    /\ disabled \subseteq Emails
    /\ tokens \in [Issuers -> {"none", "live", "expired", "revoked"}]
    /\ keys \subseteq Creations
    /\ request \in [Requests ->
           [pc : Working \cup Ends \cup {"new"},
            email : Emails \cup {NoEmail}, token : Issuers \cup {NoToken}]]

(* Registrations that all found an email free end with one account of it.  *)
OneAccountPerEmail == \A e \in Emails : Cardinality(AccountsOf(e)) <= 1

(* A failure never leaves a registration half done: the account is there   *)
(* exactly if its first session is.                                        *)
AccountHasSession == \A r \in Registrations : r \in accounts <=> tokens[r] # "none"

(* A refresh that fails anywhere, or whose answer is lost, may cost the    *)
(* client its session, but it never leaves two: a new token exists only    *)
(* when the one it was exchanged for is revoked.                           *)
RotatedOut == \A r \in Refreshes : tokens[r] # "none" => tokens[TokenOf(r)] = "revoked"

(* A token that was revoked, by a refresh or by a logout, starts no new    *)
(* session and never comes back, once the refreshes that read it before    *)
(* are over: two sessions from one token need two refreshes that overlap.  *)
Successors(t) == {r \in Refreshes : TokenOf(r) = t /\ tokens[r] # "none"}
Spent(t) ==
    /\ tokens[t] = "revoked"
    /\ \A r \in Refreshes : TokenOf(r) = t => request[r].pc \notin {"owner", "revoke", "issue"}

RevokedIsFinal ==
    [][\A t \in Issuers : Spent(t) => Spent(t)' /\ Successors(t)' = Successors(t)]_vars

(* A disabled developer gets no new session, by no handler, once the       *)
(* requests that found the account active are over.                        *)
Barred(e) ==
    /\ e \in disabled
    /\ \A r \in Logins : EmailOf(r) = e => ~ At(r, "issue")
    /\ \A r \in Refreshes : EmailOf(r) = e => ~ At(r, "revoke") /\ ~ At(r, "issue")

DisabledGetsNothing ==
    [][\A e \in Emails : Barred(e) /\ e \in disabled' =>
          /\ Barred(e)'
          /\ \A r \in Issuers : EmailOf(r) = e /\ tokens[r] = "none" => tokens'[r] = "none"]_vars

(* "Api key already exists in this name": true for every creation that     *)
(* starts when the name is taken.  The insert does not check again, so     *)
(* creations that overlap can still give two keys one name.                *)
NameClosed(c) ==
    /\ KeysNamed(c) # {}
    /\ \A r \in Creations : Email[r] = Email[c] /\ Name[r] = Name[c] => ~ At(r, "insert")

NameStaysTaken ==
    [][\A c \in Creations : NameClosed(c) => NameClosed(c)' /\ KeysNamed(c)' = KeysNamed(c)]_vars

-----------------------------------------------------------------------------
(* Why the invariants are inductive *)

(* The steps of a handler are taken by requests of its own kind only. *)
RightHandler ==
    /\ \A r \in Requests : request[r].pc \in {"owner", "revoke"} => r \in Refreshes
    /\ \A r \in Requests : request[r].pc \in {"issue", "done"} => r \in Issuers
    /\ \A r \in Registrations \cup Logins \cup Creations : EmailOf(r) = Email[r]

PresentedWasIssued ==
    \A r \in Refreshes \cup Logouts :
        ~ At(r, "new") => TokenOf(r) \in Issuers /\ tokens[TokenOf(r)] # "none"

(* A token has a row from the commit in IssueTokens on. *)
TokenAfterIssue ==
    \A r \in Issuers : /\ At(r, "done") => tokens[r] # "none"
                       /\ tokens[r] # "none" => request[r].pc \in Ends

RevokedBeforeIssue ==
    \A r \in Refreshes : At(r, "issue") => tokens[TokenOf(r)] = "revoked"

(* An account that is flushed keeps others of its email out, like one that *)
(* is committed.                                                           *)
Claims == accounts \cup {r \in Registrations : At(r, "issue")}
EmailClaimedOnce == \A a, b \in Claims : Email[a] = Email[b] => a = b

DisabledHasAccount == \A e \in disabled : AccountsOf(e) # {}

AccountInv ==
    /\ TypeOK
    /\ RightHandler
    /\ PresentedWasIssued
    /\ TokenAfterIssue
    /\ RevokedBeforeIssue
    /\ RotatedOut
    /\ AccountHasSession
    /\ EmailClaimedOnce
    /\ DisabledHasAccount

=============================================================================
