-------------------------- MODULE DashboardSession --------------------------
(***************************************************************************)
(* Signing in to the dashboard: the token of lib/api-client.ts (a module    *)
(* variable in front of localStorage), the Jotai atoms of atoms/auth.ts,    *)
(* the bridge of auth-provider.tsx, the profile loader of                   *)
(* hooks/use-current-user.ts and the guards that route the page.            *)
(*                                                                         *)
(* One page is modelled in full.  The other tabs of the browser share       *)
(* localStorage with it: they sign in and out as they like, and the browser *)
(* tells the page of their writes later, in their order.                    *)
(*                                                                         *)
(* A handler that runs between two awaits is one action.  A React effect is *)
(* an action of its own: it runs after the state it depends on changed, and *)
(* a response may be handled in between.                                    *)
(***************************************************************************)
EXTENDS Naturals, Sequences, FiniteSets

CONSTANTS
  Users,       \* accounts of the server
  Admins,      \* those with the admin role
  NoUser,      \* no profile
  MaxLogins,   \* bound: tokens the server issues
  MaxInFlight, \* bound: requests in flight
  MaxEvents    \* bound: storage events on their way

ASSUME SessionAssumption ==
  /\ Admins \subseteq Users /\ NoUser \notin Users
  /\ MaxLogins \in Nat /\ MaxInFlight \in Nat /\ MaxEvents \in Nat

NoToken == 0
Tokens == 1..MaxLogins
Pages == {"home", "admin"}
Paths == Pages \cup {"login"}

VARIABLES
  issued,     \* the server: account of each token, in the order of issue
  expired,    \* tokens the server refuses
  storage,    \* localStorage["ao-auth"]
  events,     \* writes of other tabs the page has yet to hear of
  cached,     \* _cachedToken
  token,      \* authTokenState
  profile,    \* currentUserState
  deps,       \* what the loader's effect last ran with
  path,       \* location.pathname
  from,       \* location.state.from of the login page
  requests,   \* requests in flight
  adopted,    \* auxiliary: since it was loaded the page took a token of another tab
  disturbed   \* auxiliary: someone logged out or mistyped, or a token expired

page   == <<cached, token, profile>>
router == <<path, from>>
server == <<issued, expired>>
ghosts == <<adopted, disturbed>>
vars   == <<server, storage, events, page, deps, router, requests, ghosts>>

Request ==
  [kind : {"data", "me", "login"}, token : Tokens \cup {NoToken},
   user : Users \cup {NoUser}, live : BOOLEAN]

TypeOK ==
  /\ issued \in Seq(Users) /\ Len(issued) <= MaxLogins
  /\ expired \subseteq Tokens
  /\ storage \in Tokens \cup {NoToken}
  /\ events \in Seq(Tokens \cup {NoToken})
  /\ cached \in Tokens \cup {NoToken}
  /\ token \in Tokens \cup {NoToken}
  /\ profile \in Users \cup {NoUser}
  /\ deps \in BOOLEAN \X (Users \cup {NoUser})
  /\ path \in Paths /\ from \in Pages
  /\ requests \subseteq Request
  /\ adopted \in BOOLEAN /\ disturbed \in BOOLEAN

Init ==
  /\ issued = <<>> /\ expired = {}
  /\ storage = NoToken /\ events = <<>>
  /\ cached = NoToken /\ token = NoToken /\ profile = NoUser
  /\ deps = <<FALSE, NoUser>>
  /\ path = "login" /\ from = "home"
  /\ requests = {}
  /\ adopted = FALSE /\ disturbed = FALSE

-----------------------------------------------------------------------------
(* lib/api-client.ts.                                                      *)

\* defaultGetToken: the module variable, else localStorage.
GetToken == IF cached # NoToken THEN cached ELSE storage

\* beforeRequest: the token the request carries; reading it fills the cache.
Carry(kind, user, others) ==
  /\ Cardinality(others) < MaxInFlight
  /\ requests' = others \cup {[kind |-> kind, token |-> GetToken, user |-> user, live |-> TRUE]}
  /\ cached' = GetToken

\* Mutant: the form sets the atoms only.
SignInUncached(tk, user) ==
  /\ storage' = tk /\ token' = tk
  /\ profile' = user
  /\ UNCHANGED cached

\* setAuthToken and the atoms, as login-form.tsx and setup-form.tsx set them.
SignIn(tk, user) ==
  /\ storage' = tk /\ cached' = tk /\ token' = tk
  /\ profile' = user

\* Mutant: a client without the interceptor.
OnUnauthorizedIgnored == UNCHANGED <<storage, cached, token, profile>>

\* afterResponse on a 401: clearAuthToken, and auth:logout, on which AuthProvider
\* sets the token atom.  The profile stays.
OnUnauthorized ==
  /\ storage' = NoToken /\ cached' = NoToken /\ token' = NoToken
  /\ UNCHANGED profile

-----------------------------------------------------------------------------
(* The user.  React flushes the effects that are due before an input event. *)

Deps == <<token # NoToken, profile>>

Flushed == deps = Deps

InFlight(kind) == \E r \in requests : r.kind = kind /\ r.live

SubmitLogin(user) ==
  /\ path = "login" /\ token = NoToken /\ Flushed
  /\ ~InFlight("login")
  /\ Carry("login", user, requests)
  /\ UNCHANGED <<server, storage, events, token, profile, deps, router, ghosts>>

\* logoutAtom: both atoms, and localStorage behind the first.
Logout ==
  /\ token # NoToken /\ path # "login" /\ Flushed
  /\ storage' = NoToken /\ token' = NoToken /\ profile' = NoUser
  /\ disturbed' = TRUE
  /\ UNCHANGED <<server, events, cached, deps, router, requests, adopted>>

\* A link of the sidebar, which lists an admin page for admins and as long as there
\* is no profile to judge by.
Open(p) ==
  /\ token # NoToken /\ path # "login" /\ Flushed
  /\ p = "admin" => profile \in Admins \cup {NoUser}
  /\ path' = p
  /\ UNCHANGED <<server, storage, events, page, deps, from, requests, ghosts>>

\* Mutant: the token atom starts empty.
ReloadUnhydrated(p) ==
  /\ cached' = NoToken /\ token' = NoToken /\ profile' = NoUser
  /\ deps' = <<FALSE, NoUser>>
  /\ path' = p /\ from' = "home"
  /\ events' = <<>> /\ requests' = {}
  /\ adopted' = FALSE
  /\ UNCHANGED <<server, storage, disturbed>>

\* The page is loaded again, at any address: memory is gone, the token atom reads
\* localStorage when it is mounted.
Reload(p) ==
  /\ cached' = NoToken /\ token' = storage /\ profile' = NoUser
  /\ deps' = <<FALSE, NoUser>>
  /\ path' = p /\ from' = "home"
  /\ events' = <<>> /\ requests' = {}
  /\ adopted' = FALSE
  /\ UNCHANGED <<server, storage, disturbed>>

-----------------------------------------------------------------------------
(* The page.                                                               *)

\* Mutant: the effect has no cleanup.
NotCancelled == requests

\* useCurrentUserLoader: the cleanup of the last run cancels its request.
Cancelled == {[r EXCEPT !.live = @ /\ r.kind # "me"] : r \in requests}

LoaderEffect ==
  /\ ~Flushed
  /\ deps' = Deps
  /\ IF token # NoToken /\ profile = NoUser
     THEN Carry("me", NoUser, Cancelled)
     ELSE requests' = Cancelled /\ UNCHANGED cached
  /\ UNCHANGED <<server, storage, events, token, profile, router, ghosts>>

\* A query of the page, or its next poll (use-dashboard.ts).
Query ==
  /\ token # NoToken /\ path # "login"
  /\ ~InFlight("data")
  /\ Carry("data", NoUser, requests)
  /\ UNCHANGED <<server, storage, events, token, profile, deps, router, ghosts>>

\* atomWithStorage hears of a write of another tab.
StorageEvent ==
  /\ events # <<>>
  /\ events' = Tail(events)
  /\ token' = Head(events)
  /\ adopted' = (adopted \/ Head(events) # NoToken)
  /\ UNCHANGED <<server, storage, cached, profile, deps, router, requests, disturbed>>

\* Mutant: the login page itself becomes the way back.
RequireAuthAnywhere ==
  /\ token = NoToken
  /\ path' = "login" /\ from' = path
  /\ UNCHANGED <<server, storage, events, page, deps, requests, ghosts>>

\* RequireAuth: no token, off to the login page with the way back.
RequireAuth ==
  /\ path # "login" /\ token = NoToken
  /\ path' = "login" /\ from' = path
  /\ UNCHANGED <<server, storage, events, page, deps, requests, ghosts>>

\* RequireRole: no profile, off to the login page without a way back.
RequireRole ==
  /\ path = "admin" /\ token # NoToken /\ profile = NoUser
  /\ path' = "login" /\ from' = "home"
  /\ UNCHANGED <<server, storage, events, page, deps, requests, ghosts>>

\* LoginPage sends a page that holds a token back.
LoginPage ==
  /\ path = "login" /\ token # NoToken
  /\ path' = from
  /\ UNCHANGED <<server, storage, events, page, deps, from, requests, ghosts>>

-----------------------------------------------------------------------------
(* The server, the network and the other tabs.                             *)

Expire(tk) ==
  /\ tk <= Len(issued) /\ tk \notin expired
  /\ expired' = expired \cup {tk}
  /\ disturbed' = TRUE
  /\ UNCHANGED <<issued, storage, events, page, deps, router, requests, adopted>>

\* login() answers with a token, the form signs in and goes to the dashboard.
LoginAccepted(r) ==
  /\ r.kind = "login" /\ Len(issued) < MaxLogins
  /\ issued' = Append(issued, r.user)
  /\ SignIn(Len(issued) + 1, r.user)
  /\ path' = "home"
  /\ requests' = requests \ {r}
  /\ UNCHANGED <<expired, events, deps, from, ghosts>>

\* A 401: the password was wrong, the token has expired or there is none.
Refused(r) ==
  /\ r.kind = "login" \/ r.token = NoToken \/ r.token \in expired
  /\ requests' = requests \ {r}
  /\ OnUnauthorized
  /\ disturbed' = (disturbed \/ r.kind = "login")
  /\ UNCHANGED <<server, events, deps, router, adopted>>

\* The data has arrived, perhaps for a token that has expired since.
DataServed(r) ==
  /\ r.kind = "data" /\ r.token # NoToken
  /\ requests' = requests \ {r}
  /\ UNCHANGED <<server, storage, events, page, deps, router, ghosts>>

\* fetchMe: the profile of the account the request was made for.
MeServed(r) ==
  /\ r.kind = "me" /\ r.token # NoToken
  /\ requests' = requests \ {r}
  /\ profile' = IF r.live THEN issued[r.token] ELSE profile
  /\ UNCHANGED <<server, storage, events, cached, token, deps, router, ghosts>>

\* No answer: nothing is cleared, and the page tries nothing again by itself.
Lost(r) ==
  /\ requests' = requests \ {r}
  /\ UNCHANGED <<server, storage, events, page, deps, router, ghosts>>

Tell(value) ==
  /\ Len(events) < MaxEvents
  /\ events' = Append(events, value)

OtherTabSignsIn(user) ==
  /\ Len(issued) < MaxLogins
  /\ issued' = Append(issued, user)
  /\ storage' = Len(issued) + 1
  /\ Tell(Len(issued) + 1)
  /\ UNCHANGED <<expired, page, deps, router, requests, ghosts>>

\* By its user or by a 401; a write that changes nothing raises no event.
OtherTabSignsOut ==
  /\ storage # NoToken
  /\ storage' = NoToken
  /\ Tell(NoToken)
  /\ disturbed' = TRUE
  /\ UNCHANGED <<server, page, deps, router, requests, adopted>>

-----------------------------------------------------------------------------
User ==
  \/ \E u \in Users : SubmitLogin(u)
  \/ Logout
  \/ \E p \in Pages : Open(p)
  \/ \E p \in Paths : Reload(p)

Effect == LoaderEffect \/ RequireAuth \/ RequireRole \/ LoginPage

Answer(r) == LoginAccepted(r) \/ Refused(r) \/ DataServed(r) \/ MeServed(r) \/ Lost(r)

OtherTab == OtherTabSignsOut \/ \E u \in Users : OtherTabSignsIn(u)

Next ==
  \/ User \/ Effect \/ Query \/ StorageEvent
  \/ \E r \in requests : Answer(r)
  \/ \E tk \in Tokens : Expire(tk)
  \/ OtherTab

Spec == Init /\ [][Next]_vars

Answered(kind) == \E r \in requests : r.kind = kind /\ Answer(r)

\* The browser delivers events, React runs effects, a page asks again (on mount,
\* on focus, by its polling interval), a request is answered or times out
\* (API_TIMEOUT_MS), and a server that refuses a token is heard some time.
Fairness ==
  /\ WF_vars(StorageEvent) /\ WF_vars(LoaderEffect)
  /\ WF_vars(RequireAuth) /\ WF_vars(RequireRole) /\ WF_vars(LoginPage)
  /\ \A kind \in {"data", "me", "login"} : WF_vars(Answered(kind))
  /\ SF_vars(Query) /\ SF_vars(\E r \in requests : Refused(r))

FairSpec == Spec /\ Fairness

-----------------------------------------------------------------------------
(* Properties.                                                             *)

\* The page has heard of every write of the others and took no token of theirs.
Undisturbed == ~adopted /\ events = <<>>

\* api-client.ts guarantees that "the first API request from the dashboard
\* carries the token": the requests of a page are made with the token of its own
\* session, whatever an earlier session, a reload or a late 401 left in the cache.
TokenInUse == token # NoToken /\ Undisturbed => GetToken = token

\* The profile by which the sidebar and RequireRole judge is the one of the
\* session the page opened, although a 401 leaves the old profile behind and a
\* profile may arrive late.
ProfileIsOwners ==
  token # NoToken /\ profile # NoUser /\ Flushed /\ Undisturbed => profile = issued[token]

\* While nobody logs out, no password is mistyped and no token expires, a page
\* that has a session keeps it: no request of it goes out without a token or is
\* refused, through reloads and the sign-ins of other tabs.
SessionKept == [][~disturbed' /\ token # NoToken => token' # NoToken]_vars

\* auth.ts leaves expiry to the server, "401 -> auto-logout via the API client
\* interceptor": a page that goes on asking does not stay in an expired session.
ExpiredSessionEnds ==
  [](~adopted) => (token \in expired ~> token \notin expired)

=============================================================================
