------------------------------ MODULE Accounts ------------------------------
(***************************************************************************)
(* The life of one account: an administrator creates it and changes its    *)
(* status, sign-in links are issued and mailed, a link is followed, which  *)
(* activates an invited user and opens a session. Every request is a       *)
(* sequence of awaited transactions; others run in between, a call may     *)
(* raise, the process may die.                                             *)
(*                                                                         *)
(* Sources: apps/api/api_app/account_states.py, magic_link.py,             *)
(* routers/admin_users.py, routers/auth.py and packages/db/db/             *)
(* repository.py.                                                          *)
(***************************************************************************)
EXTENDS Naturals, Sequences, FiniteSets

CONSTANTS
    Issuers, Visits, Changes,   \* concurrent requests of each kind
    Targets,                    \* the statuses that administrators ask for
    MaxLinks, MaxStatusChanges, MaxAccountFaults   \* bounds

Statuses == {"INVITED", "ACTIVE", "SUSPENDED", "DISABLED", "EXPIRED", "LOCKED", "REVOKED"}
Purposes == {"INITIAL_INVITATION", "LOGIN"}

VARIABLES
    status,      \* users.status, "NONE" when there is no row
    links,       \* magic_link_tokens, in the order of creation
    sessions,    \* sessions: the link that each was opened with, if it is revoked
    issue, visit, change,   \* the requests in progress
    accountFaults, statusChanges,
    raced        \* history: per kind of request, two of them overlapped

tables == <<status, links, sessions>>
requests == <<issue, visit, change>>
accountVars == <<tables, requests, accountFaults, statusChanges, raced>>

Idle == [step |-> "idle"]
Links == [purpose : Purposes, consumed : BOOLEAN, revoked : BOOLEAN]

AccountsTypeOK ==
    /\ status \in Statuses \cup {"NONE"}
    /\ links \in Seq(Links) /\ Len(links) <= MaxLinks
    /\ sessions \in Seq([link : 1 .. MaxLinks, revoked : BOOLEAN])
    /\ issue \in [Issuers -> {Idle} \cup [step : {"revoke", "insert"}, purpose : Purposes]]
    /\ visit \in [Visits -> {Idle}
                    \cup [step : {"user", "consume", "stamp", "session"},
                          link : 1 .. MaxLinks, invited : BOOLEAN]]
    /\ change \in [Changes -> {Idle} \cup [step : {"write"}, before : Statuses, after : Statuses]]
    /\ accountFaults \in Nat /\ statusChanges \in 0 .. MaxStatusChanges
    /\ raced \in [links : BOOLEAN, visits : BOOLEAN, status : BOOLEAN]

AccountsInit ==
    /\ status = "NONE"
    /\ links = <<>> /\ sessions = <<>>
    /\ issue = [i \in Issuers |-> Idle]
    /\ visit = [v \in Visits |-> Idle]
    /\ change = [c \in Changes |-> Idle]
    /\ accountFaults = 0 /\ statusChanges = 0
    /\ raced = [links |-> FALSE, visits |-> FALSE, status |-> FALSE]

\* _ALLOWED_TRANSITIONS; INVITED -> ACTIVE is not in it.
Allowed ==
    [s \in Statuses |->
       CASE s = "INVITED" -> {"EXPIRED", "REVOKED"}
         [] s = "ACTIVE"  -> {"SUSPENDED", "DISABLED", "LOCKED", "REVOKED"}
         [] s = "REVOKED" -> {}
         [] OTHER         -> {"ACTIVE", "REVOKED"}]

Authenticatable == {"ACTIVE", "INVITED"}

-----------------------------------------------------------------------------
(* Issuing a link *)

\* POST /admin/users, when the email is free: the row, then its invitation.
CreateUser(i) ==
    /\ issue[i] = Idle
    /\ status = "NONE"
    /\ status' = "INVITED"
    /\ issue' = [issue EXCEPT ![i] = [step |-> "insert", purpose |-> "INITIAL_INVITATION"]]
    /\ UNCHANGED <<links, sessions, visit, change, accountFaults, statusChanges, raced>>

\* A request at the login page, an administrator's resend-invitation (only to an
\* invited user) or send-login-link (only to an active one).
RequestLink(i) ==
    /\ issue[i] = Idle
    /\ Len(links) < MaxLinks
    /\ status \in Authenticatable
    /\ issue' = [issue EXCEPT ![i] =
         [step |-> "revoke",
          purpose |-> IF status = "INVITED" THEN "INITIAL_INVITATION" ELSE "LOGIN"]]
    /\ raced' = [raced EXCEPT !.links = @ \/ \E j \in Issuers : issue[j] # Idle]
    /\ UNCHANGED <<tables, visit, change, accountFaults, statusChanges>>

Live(link) == ~link.consumed /\ ~link.revoked

\* Mutant: the links of the other purpose are revoked.
MutRevoked(link, purpose) ==
    IF Live(link) /\ link.purpose # purpose
    THEN [link EXCEPT !.revoked = TRUE] ELSE link

Revoked(link, purpose) ==
    IF Live(link) /\ link.purpose = purpose THEN [link EXCEPT !.revoked = TRUE] ELSE link

\* revoke_unconsumed_magic_link_tokens_for_user.
RevokeLinks(i) ==
    /\ issue[i].step = "revoke"
    /\ links' = [k \in DOMAIN links |-> Revoked(links[k], issue[i].purpose)]
    /\ issue' = [issue EXCEPT ![i].step = "insert"]
    /\ UNCHANGED <<status, sessions, visit, change, accountFaults, statusChanges, raced>>

\* create_magic_link_token; the mail that follows is lost or never opened when nobody
\* follows the link.
InsertLink(i) ==
    /\ issue[i].step = "insert"
    /\ Len(links) < MaxLinks
    /\ links' = Append(links, [purpose |-> issue[i].purpose, consumed |-> FALSE,
                               revoked |-> FALSE])
    /\ issue' = [issue EXCEPT ![i] = Idle]
    /\ UNCHANGED <<status, sessions, visit, change, accountFaults, statusChanges, raced>>

-----------------------------------------------------------------------------
(* GET /auth/magic-link/verify *)

\* The link is looked up (one that has expired is refused: nobody follows it) ...
FollowLink(v, k) ==
    /\ visit[v] = Idle
    /\ Live(links[k])
    /\ visit' = [visit EXCEPT ![v] = [step |-> "user", link |-> k, invited |-> FALSE]]
    /\ raced' = [raced EXCEPT !.visits = @ \/ \E w \in Visits : visit[w] # Idle]
    /\ UNCHANGED <<tables, issue, change, accountFaults, statusChanges>>

\* ... and its user, who must be eligible.
ReadUser(v) ==
    /\ visit[v].step = "user"
    /\ visit' = [visit EXCEPT ![v] =
         IF status \in Authenticatable
         THEN [@ EXCEPT !.step = "consume", !.invited = (status = "INVITED")]
         ELSE Idle]
    /\ UNCHANGED <<tables, issue, change, accountFaults, statusChanges, raced>>

\* consume_magic_link_token: "consume before creating the session".
Consume(v) ==
    /\ visit[v].step = "consume"
    /\ links' = [links EXCEPT ![visit[v].link].consumed = TRUE]
    /\ visit' = [visit EXCEPT ![v].step = "stamp"]
    /\ UNCHANGED <<status, sessions, issue, change, accountFaults, statusChanges, raced>>

\* mark_user_activated for a user who was invited when looked up, whatever the
\* status is by now; record_user_login for the others.
Stamp(v) ==
    /\ visit[v].step = "stamp"
    /\ status' = IF visit[v].invited THEN "ACTIVE" ELSE status
    /\ raced' = [raced EXCEPT !.status = @ \/ (visit[v].invited /\ status # "INVITED")]
    /\ visit' = [visit EXCEPT ![v].step = "session"]
    /\ UNCHANGED <<links, sessions, issue, change, accountFaults, statusChanges>>

CreateSession(v) ==
    /\ visit[v].step = "session"
    /\ sessions' = Append(sessions, [link |-> visit[v].link, revoked |-> FALSE])
    /\ visit' = [visit EXCEPT ![v] = Idle]
    /\ UNCHANGED <<status, links, issue, change, accountFaults, statusChanges, raced>>

\* POST /auth/logout, or an administrator's revocation.
RevokeSession(k) ==
    /\ ~sessions[k].revoked
    /\ sessions' = [sessions EXCEPT ![k].revoked = TRUE]
    /\ UNCHANGED <<status, links, requests, accountFaults, statusChanges, raced>>

-----------------------------------------------------------------------------
(* POST /admin/users/{user_id}/status *)

\* Mutant: the transition is not validated.
MutReadStatus(c, target) ==
    /\ change[c] = Idle
    /\ statusChanges < MaxStatusChanges
    /\ status \in Statuses \ {target}
    /\ change' = [change EXCEPT ![c] = [step |-> "write", before |-> status, after |-> target]]
    /\ statusChanges' = statusChanges + 1
    /\ UNCHANGED <<tables, issue, visit, accountFaults, raced>>

\* The status is read and the transition validated.
ReadStatus(c, target) ==
    /\ change[c] = Idle
    /\ statusChanges < MaxStatusChanges
    /\ status \in Statuses /\ target \in Allowed[status]
    /\ change' = [change EXCEPT ![c] = [step |-> "write", before |-> status, after |-> target]]
    /\ statusChanges' = statusChanges + 1
    /\ UNCHANGED <<tables, issue, visit, accountFaults, raced>>

\* update_user_status, blind to what happened since. The audit event and the mail that
\* follow change nothing that is read again.
WriteStatus(c) ==
    /\ change[c].step = "write"
    /\ status' = change[c].after
    /\ raced' = [raced EXCEPT !.status = @ \/ status # change[c].before]
    /\ change' = [change EXCEPT ![c] = Idle]
    /\ UNCHANGED <<links, sessions, issue, visit, accountFaults, statusChanges>>

-----------------------------------------------------------------------------

\* The process dies: every request in progress ends where it is.
Crash ==
    /\ accountFaults < MaxAccountFaults
    /\ accountFaults' = accountFaults + 1
    /\ issue' = [i \in Issuers |-> Idle]
    /\ visit' = [v \in Visits |-> Idle]
    /\ change' = [c \in Changes |-> Idle]
    /\ UNCHANGED <<tables, statusChanges, raced>>

AccountsNext ==
    \/ \E i \in Issuers :
         CreateUser(i) \/ RequestLink(i) \/ RevokeLinks(i) \/ InsertLink(i)
    \/ \E v \in Visits, k \in DOMAIN links : FollowLink(v, k)
    \/ \E v \in Visits : ReadUser(v) \/ Consume(v) \/ Stamp(v) \/ CreateSession(v)
    \/ \E k \in DOMAIN sessions : RevokeSession(k)
    \/ \E c \in Changes, target \in Targets : ReadStatus(c, target)
    \/ \E c \in Changes : WriteStatus(c)
    \/ Crash

AccountsSpec == AccountsInit /\ [][AccountsNext]_accountVars

-----------------------------------------------------------------------------
(* What the code guarantees *)

\* A step of the documented life of an account.
Allowable ==
    ~raced'.status /\ status' # status =>
      \/ <<status, status'>> = <<"NONE", "INVITED">>
      \/ status' \in Allowed[status]
      \/ /\ <<status, status'>> = <<"INVITED", "ACTIVE">>
         /\ \E k \in DOMAIN links : links[k].consumed

(***************************************************************************)
(* As long as no status was written over one that had changed since it was *)
(* read, the account follows its documented life: REVOKED is final, and    *)
(* an invited user becomes active by following a link only                 *)
(* (account_states.py, change_user_status, verify_magic_link).             *)
(***************************************************************************)
StatusFollowsTable == [][Allowable]_accountVars

(***************************************************************************)
(* "An old email link can never be used alongside a new one": unless two   *)
(* links were being issued at once, the user has one live link of a        *)
(* purpose at most, and the newest one is it                               *)
(* (revoke_unconsumed_magic_link_tokens_for_user, _issue_token).  A link   *)
(* opens one session at most unless two visits overlapped, and one that    *)
(* was consumed opened its session unless the visit is under way or the    *)
(* process died in it (verify_magic_link).                                 *)
(***************************************************************************)
LinkOpensOneSession ==
    /\ ~raced.links =>
         \A j, k \in DOMAIN links :
           /\ Live(links[j]) /\ Live(links[k]) /\ links[j].purpose = links[k].purpose => j = k
           /\ Live(links[j]) /\ k > j => links[k].purpose # links[j].purpose
    /\ ~raced.visits =>
         \A j, k \in DOMAIN sessions : sessions[j].link = sessions[k].link => j = k
    /\ accountFaults = 0 =>
         \A k \in DOMAIN links : links[k].consumed =>
           \/ \E s \in DOMAIN sessions : sessions[s].link = k
           \/ \E v \in Visits : visit[v] # Idle /\ visit[v].link = k
=============================================================================
