----------------------- MODULE DashboardSessionProofs -----------------------
(***************************************************************************)
(* Proofs about DashboardSession, for any accounts, any number of sessions, *)
(* requests in flight and storage events on their way.                      *)
(***************************************************************************)
EXTENDS DashboardSession, TLAPS

\* Every token anywhere is one the server issued, and a login names an account.
IssuedOnly ==
  /\ storage \in 0..Len(issued) /\ cached \in 0..Len(issued) /\ token \in 0..Len(issued)
  /\ events \in Seq(0..Len(issued))
  /\ \A r \in requests :
       /\ r.token \in 0..Len(issued)
       /\ r.kind = "login" => r.user \in Users /\ r.live

TypeInv == TypeOK /\ IssuedOnly

LoginFlight == {r \in requests : r.kind = "login"}
ProfileFlight == {r \in requests : r.kind = "me" /\ r.live}

\* A page waits for one login at a time, and while it does it has no session of its
\* own and asks for no profile.
OneLogin ==
  /\ \A r, s \in LoginFlight : r = s
  /\ ~adopted /\ LoginFlight # {} => token = NoToken /\ ProfileFlight = {}

\* The profile asked for last is of the session the page has.
OneProfile ==
  /\ \A r, s \in ProfileFlight : r = s
  /\ ProfileFlight # {} => deps = <<TRUE, NoUser>>
  /\ \A r \in ProfileFlight :
       Undisturbed /\ token # NoToken => profile = NoUser /\ r.token = token

\* Flushed or not, the profile is its owner's.
OwnProfile ==
  token # NoToken /\ profile # NoUser /\ Undisturbed => profile = issued[token]

OwnerInv == TypeInv /\ TokenInUse /\ OneLogin /\ OneProfile /\ OwnProfile

\* Until something ends a session, whatever refers to one refers to a good one.
GoodSession ==
  ~disturbed =>
    /\ expired = {}
    /\ token # NoToken \/ events # <<>> => storage # NoToken
    /\ \A i \in 1..Len(events) : events[i] # NoToken
    /\ \A r \in requests : r.kind # "login" => r.token # NoToken

-----------------------------------------------------------------------------
(* What a step does to the requests, and to the tokens they carry.         *)

\* A request a page makes is of the type, with the token that GetToken reads.
Made(kind, user) == [kind |-> kind, token |-> GetToken, user |-> user, live |-> TRUE]

\* The token that requests are made with is one that was issued.
LEMMA GetTokenIssued ==
  ASSUME TypeInv
  PROVE  GetToken \in 0..Len(issued) /\ GetToken \in Tokens \cup {NoToken}
BY DEF TypeInv, TypeOK, IssuedOnly, GetToken

\* Carrying a token leaves the cache and the requests in type.
LEMMA CarryTypes ==
  ASSUME TypeInv, NEW kind \in {"data", "me", "login"}, NEW user \in Users \cup {NoUser},
         NEW others, others \subseteq Request, Carry(kind, user, others)
  PROVE  /\ cached' \in Tokens \cup {NoToken} /\ cached' \in 0..Len(issued)
         /\ requests' = others \cup {Made(kind, user)}
         /\ Made(kind, user) \in Request
         /\ requests' \subseteq Request
<1>1. GetToken \in 0..Len(issued) /\ GetToken \in Tokens \cup {NoToken}
  BY GetTokenIssued
<1>2. Made(kind, user) \in Request
  BY <1>1, Zenon DEF Made, Request
<1> QED BY <1>1, <1>2, Zenon DEF Carry, Made

\* Cancelling changes nothing but the liveness of profile requests.
LEMMA CancelledRequests ==
  ASSUME TypeInv, NEW r \in Cancelled
  PROVE  /\ r \in Request
         /\ r.kind = "me" => ~r.live
         /\ \E q \in requests :
              /\ r.kind = q.kind /\ r.token = q.token
              /\ q.kind # "me" => r = q
<1>1. PICK q \in requests : r = [q EXCEPT !.live = @ /\ q.kind # "me"]
  BY DEF Cancelled
<1>2. q \in Request
  BY DEF TypeInv, TypeOK
<1>3. r = [kind |-> q.kind, token |-> q.token, user |-> q.user, live |-> q.live /\ q.kind # "me"]
  BY <1>1, <1>2 DEF Request
<1>4. r \in Request
  BY <1>2, <1>3, Zenon DEF Request
<1>5. r.kind = "me" => ~r.live
  BY <1>3
<1>6. q.kind # "me" => r = q
  <2> SUFFICES ASSUME q.kind # "me" PROVE r = q
    OBVIOUS
  <2>1. q.live \in BOOLEAN
    BY <1>2 DEF Request
  <2>2. (q.live /\ q.kind # "me") = q.live
    BY <2>1
  <2> QED BY <1>2, <1>3, <2>2 DEF Request
<1> QED BY <1>3, <1>4, <1>5, <1>6

-----------------------------------------------------------------------------
(* Types.                                                                  *)

\* A token issued long ago stays one when another is issued.
LEMMA IssuedStays ==
  ASSUME TypeInv, NEW user \in Users, issued' = Append(issued, user), Len(issued) < MaxLogins
  PROVE  /\ issued' \in Seq(Users) /\ Len(issued') = Len(issued) + 1 /\ Len(issued') <= MaxLogins
         /\ 0..Len(issued) \subseteq 0..Len(issued')
         /\ Len(issued) + 1 \in 0..Len(issued') /\ Len(issued) + 1 \in Tokens
         /\ \A tk \in 1..Len(issued) : issued'[tk] = issued[tk]
         /\ issued'[Len(issued) + 1] = user
BY SessionAssumption DEF TypeInv, TypeOK, Tokens

\* Every step keeps the types and the tokens among those issued.
LEMMA StepTypes ==
  ASSUME TypeInv, [Next]_vars
  PROVE  TypeInv'
<1> USE DEF NoToken, page, router, server, ghosts
<1>1. ASSUME NEW u \in Users, SubmitLogin(u)
      PROVE  TypeInv'
  <2>1. /\ cached' \in Tokens \cup {NoToken} /\ cached' \in 0..Len(issued)
        /\ requests' = requests \cup {Made("login", u)} /\ requests' \subseteq Request
    BY <1>1, CarryTypes DEF TypeInv, TypeOK, SubmitLogin
  <2>2. \A r \in requests' : r.token \in 0..Len(issued) /\ (r.kind = "login" => r.user \in Users /\ r.live)
    BY <2>1, GetTokenIssued DEF TypeInv, IssuedOnly, Made
  <2> QED BY <1>1, <2>1, <2>2 DEF TypeInv, TypeOK, IssuedOnly, SubmitLogin
<1>2. ASSUME Logout
      PROVE  TypeInv'
  BY <1>2 DEF TypeInv, TypeOK, IssuedOnly, Logout
<1>3. ASSUME NEW p \in Pages, Open(p)
      PROVE  TypeInv'
  BY <1>3 DEF TypeInv, TypeOK, IssuedOnly, Open, Paths
<1>4. ASSUME NEW p \in Paths, Reload(p)
      PROVE  TypeInv'
  <2>1. deps' \in BOOLEAN \X (Users \cup {NoUser}) /\ adopted' \in BOOLEAN
    BY <1>4, Zenon DEF Reload
  <2> QED BY <1>4, <2>1 DEF TypeInv, TypeOK, IssuedOnly, Reload, Pages
<1>5. ASSUME LoaderEffect
      PROVE  TypeInv'
  <2>1. deps' \in BOOLEAN \X (Users \cup {NoUser})
    BY <1>5, Zenon DEF LoaderEffect, Deps, TypeInv, TypeOK
  <2>2. /\ Cancelled \subseteq Request
        /\ \A r \in Cancelled : r.token \in 0..Len(issued) /\ (r.kind = "login" => r.user \in Users /\ r.live)
    <3>1. Cancelled \subseteq Request
      BY CancelledRequests
    <3>2. ASSUME NEW r \in Cancelled
          PROVE  r.token \in 0..Len(issued) /\ (r.kind = "login" => r.user \in Users /\ r.live)
      <4>1. PICK q \in requests :
              /\ r.kind = q.kind /\ r.token = q.token
              /\ q.kind # "me" => r = q
        BY CancelledRequests
      <4> QED BY <4>1 DEF TypeInv, IssuedOnly
    <3> QED BY <3>1, <3>2
  <2>3. /\ cached' \in Tokens \cup {NoToken} /\ cached' \in 0..Len(issued)
        /\ requests' \subseteq Request
        /\ \A r \in requests' : r.token \in 0..Len(issued) /\ (r.kind = "login" => r.user \in Users /\ r.live)
    <3>1. CASE token # NoToken /\ profile = NoUser
      <4>1. Carry("me", NoUser, Cancelled)
        BY <1>5, <3>1 DEF LoaderEffect
      <4>2. /\ cached' \in Tokens \cup {NoToken} /\ cached' \in 0..Len(issued)
            /\ requests' = Cancelled \cup {Made("me", NoUser)} /\ requests' \subseteq Request
        BY <4>1, <2>2, CarryTypes
      <4> QED BY <4>2, <2>2, GetTokenIssued DEF Made
    <3>2. CASE ~(token # NoToken /\ profile = NoUser)
      BY <1>5, <2>2, <3>2 DEF LoaderEffect, TypeInv, TypeOK, IssuedOnly
    <3> QED BY <3>1, <3>2
  <2> QED BY <1>5, <2>1, <2>3 DEF TypeInv, TypeOK, IssuedOnly, LoaderEffect
<1>6. ASSUME RequireAuth \/ RequireRole \/ LoginPage
      PROVE  TypeInv'
  BY <1>6 DEF TypeInv, TypeOK, IssuedOnly, RequireAuth, RequireRole, LoginPage, Paths, Pages
<1>7. ASSUME Query
      PROVE  TypeInv'
  <2>1. /\ cached' \in Tokens \cup {NoToken} /\ cached' \in 0..Len(issued)
        /\ requests' = requests \cup {Made("data", NoUser)} /\ requests' \subseteq Request
    BY <1>7, CarryTypes DEF TypeInv, TypeOK, Query
  <2>2. \A r \in requests' : r.token \in 0..Len(issued) /\ (r.kind = "login" => r.user \in Users /\ r.live)
    BY <2>1, GetTokenIssued DEF TypeInv, IssuedOnly, Made
  <2> QED BY <1>7, <2>1, <2>2 DEF TypeInv, TypeOK, IssuedOnly, Query
<1>8. ASSUME StorageEvent
      PROVE  TypeInv'
  <2>1. /\ events' \in Seq(Tokens \cup {NoToken}) /\ events' \in Seq(0..Len(issued))
        /\ token' \in Tokens \cup {NoToken} /\ token' \in 0..Len(issued)
    BY <1>8 DEF StorageEvent, TypeInv, TypeOK, IssuedOnly
  <2>2. adopted' \in BOOLEAN
    BY <1>8, Zenon DEF StorageEvent
  <2> QED BY <1>8, <2>1, <2>2 DEF TypeInv, TypeOK, IssuedOnly, StorageEvent
<1>9. ASSUME NEW r \in requests, LoginAccepted(r)
      PROVE  TypeInv'
  <2>1. r.user \in Users
    BY <1>9 DEF LoginAccepted, TypeInv, IssuedOnly
  <2>2. /\ issued' \in Seq(Users) /\ Len(issued') <= MaxLogins
        /\ 0..Len(issued) \subseteq 0..Len(issued')
        /\ Len(issued) + 1 \in 0..Len(issued') /\ Len(issued) + 1 \in Tokens
    BY <1>9, <2>1, IssuedStays DEF LoginAccepted
  <2>3. events' \in Seq(0..Len(issued'))
    BY <1>9, <2>2 DEF LoginAccepted, TypeInv, IssuedOnly
  <2> QED BY <1>9, <2>1, <2>2, <2>3 DEF TypeInv, TypeOK, IssuedOnly, LoginAccepted, SignIn, Paths, Pages
<1>10. ASSUME NEW r \in requests, Refused(r)
      PROVE  TypeInv'
  <2>1. disturbed' \in BOOLEAN
    BY <1>10, Zenon DEF Refused
  <2> QED BY <1>10, <2>1 DEF TypeInv, TypeOK, IssuedOnly, Refused, OnUnauthorized
<1>11. ASSUME NEW r \in requests, DataServed(r) \/ Lost(r)
      PROVE  TypeInv'
  BY <1>11 DEF TypeInv, TypeOK, IssuedOnly, DataServed, Lost
<1>12. ASSUME NEW r \in requests, MeServed(r)
      PROVE  TypeInv'
  <2>1. r.token \in 1..Len(issued)
    BY <1>12 DEF MeServed, TypeInv, TypeOK, IssuedOnly
  <2>2. issued[r.token] \in Users
    BY <2>1 DEF TypeInv, TypeOK
  <2> QED BY <1>12, <2>2 DEF TypeInv, TypeOK, IssuedOnly, MeServed
<1>13. ASSUME NEW tk \in Tokens, Expire(tk)
      PROVE  TypeInv'
  BY <1>13 DEF TypeInv, TypeOK, IssuedOnly, Expire
<1>14. ASSUME NEW u \in Users, OtherTabSignsIn(u)
      PROVE  TypeInv'
  <2>1. /\ issued' \in Seq(Users) /\ Len(issued') <= MaxLogins
        /\ 0..Len(issued) \subseteq 0..Len(issued')
        /\ Len(issued) + 1 \in 0..Len(issued') /\ Len(issued) + 1 \in Tokens
    BY <1>14, IssuedStays DEF OtherTabSignsIn
  <2>2. events' \in Seq(Tokens \cup {NoToken}) /\ events' \in Seq(0..Len(issued'))
    <3>1. events \in Seq(0..Len(issued')) /\ events' = Append(events, Len(issued) + 1)
      BY <1>14, <2>1 DEF OtherTabSignsIn, Tell, TypeInv, IssuedOnly
    <3> QED BY <2>1, <3>1 DEF TypeInv, TypeOK
  <2> QED BY <1>14, <2>1, <2>2 DEF TypeInv, TypeOK, IssuedOnly, OtherTabSignsIn
<1>15. ASSUME OtherTabSignsOut
      PROVE  TypeInv'
  <2>1. events' \in Seq(Tokens \cup {NoToken}) /\ events' \in Seq(0..Len(issued))
    BY <1>15 DEF OtherTabSignsOut, Tell, TypeInv, TypeOK, IssuedOnly
  <2> QED BY <1>15, <2>1 DEF TypeInv, TypeOK, IssuedOnly, OtherTabSignsOut
<1>16. CASE UNCHANGED vars
  BY <1>16 DEF TypeInv, TypeOK, IssuedOnly, vars
<1> QED BY <1>1, <1>2, <1>3, <1>4, <1>5, <1>6, <1>7, <1>8, <1>9, <1>10, <1>11, <1>12, <1>13, <1>14, <1>15, <1>16
     DEF Next, User, Effect, Answer, OtherTab

\* The start of a page satisfies the types.
LEMMA InitTypes ==
  ASSUME Init
  PROVE  TypeInv
<1>1. deps \in BOOLEAN \X (Users \cup {NoUser}) /\ adopted \in BOOLEAN /\ disturbed \in BOOLEAN
  BY Zenon DEF Init
<1> QED BY <1>1, SessionAssumption DEF Init, TypeInv, TypeOK, IssuedOnly, NoToken, Tokens, Paths, Pages

\* The page, the browser and the server never leave the types: no token is used that
\* was not issued, and every login in flight is of an account.
THEOREM SessionTypeCorrect == Spec => []TypeOK
<1>1. Init => TypeInv
  BY InitTypes
<1>2. TypeInv /\ [Next]_vars => TypeInv'
  BY StepTypes
<1>3. TypeInv => TypeOK
  BY DEF TypeInv
<1> QED BY <1>1, <1>2, <1>3, PTL DEF Spec

-----------------------------------------------------------------------------
(* The token of a page and the profile it judges by.                       *)

\* Every step keeps the token in use: a request made fills the cache with it.
LEMMA StepTokenInUse ==
  ASSUME TypeInv, TokenInUse, [Next]_vars
  PROVE  TokenInUse'
<1> USE DEF NoToken, page, router, server, ghosts, TokenInUse, Undisturbed, GetToken
<1>1. ASSUME NEW u \in Users, SubmitLogin(u)
      PROVE  TokenInUse'
  BY <1>1 DEF SubmitLogin, Carry
<1>2. ASSUME Logout
      PROVE  TokenInUse'
  BY <1>2 DEF Logout
<1>3. ASSUME NEW p \in Pages, Open(p)
      PROVE  TokenInUse'
  BY <1>3 DEF Open
<1>4. ASSUME NEW p \in Paths, Reload(p)
      PROVE  TokenInUse'
  BY <1>4 DEF Reload
<1>5. ASSUME LoaderEffect
      PROVE  TokenInUse'
  BY <1>5 DEF LoaderEffect, Carry
<1>6. ASSUME RequireAuth \/ RequireRole \/ LoginPage
      PROVE  TokenInUse'
  BY <1>6 DEF RequireAuth, RequireRole, LoginPage
<1>7. ASSUME Query
      PROVE  TokenInUse'
  BY <1>7 DEF Query, Carry
<1>8. ASSUME StorageEvent
      PROVE  TokenInUse'
  BY <1>8 DEF StorageEvent
<1>9. ASSUME NEW r \in requests, LoginAccepted(r)
      PROVE  TokenInUse'
  BY <1>9 DEF LoginAccepted, SignIn, TypeInv, TypeOK
<1>10. ASSUME NEW r \in requests, Refused(r)
      PROVE  TokenInUse'
  BY <1>10 DEF Refused, OnUnauthorized
<1>11. ASSUME NEW r \in requests, DataServed(r) \/ Lost(r) \/ MeServed(r)
      PROVE  TokenInUse'
  BY <1>11 DEF DataServed, Lost, MeServed
<1>12. ASSUME NEW tk \in Tokens, Expire(tk)
      PROVE  TokenInUse'
  BY <1>12 DEF Expire
<1>13. ASSUME OtherTab
      PROVE  TokenInUse'
  BY <1>13 DEF OtherTab, OtherTabSignsIn, OtherTabSignsOut, Tell, TypeInv, TypeOK
<1>14. CASE UNCHANGED vars
  BY <1>14 DEF vars
<1> QED BY <1>1, <1>2, <1>3, <1>4, <1>5, <1>6, <1>7, <1>8, <1>9, <1>10, <1>11, <1>12, <1>13, <1>14
     DEF Next, User, Effect, Answer

\* The requests of a page are made with the token of its own session, while it hears
\* of no other.
THEOREM RequestsCarryToken == Spec => []TokenInUse
<1>1. Init => TypeInv /\ TokenInUse
  BY InitTypes DEF Init, TokenInUse
<1>2. TypeInv /\ TokenInUse /\ [Next]_vars => TypeInv' /\ TokenInUse'
  BY StepTypes, StepTokenInUse
<1> QED BY <1>1, <1>2, PTL DEF Spec

\* Cancelling leaves the logins in flight and no profile.
LEMMA CancelledFlights ==
  ASSUME TypeInv, NEW r \in Cancelled
  PROVE  /\ r.kind = "login" => r \in LoginFlight
         /\ ~(r.kind = "me" /\ r.live)
<1>1. PICK q \in requests :
        /\ r.kind = q.kind /\ r.token = q.token
        /\ q.kind # "me" => r = q
  BY CancelledRequests
<1>2. r.kind = "me" => ~r.live
  BY CancelledRequests
<1> QED BY <1>1, <1>2 DEF LoginFlight

\* Every step keeps at most one login in flight, and none beside a profile.
LEMMA StepOneLogin ==
  ASSUME TypeInv, OneLogin, OneProfile, [Next]_vars
  PROVE  OneLogin'
<1> USE DEF NoToken, page, router, server, ghosts, OneLogin, LoginFlight, ProfileFlight
<1>1. ASSUME NEW u \in Users, SubmitLogin(u)
      PROVE  OneLogin'
  <2>1. token = NoToken /\ token' = token /\ LoginFlight = {} /\ ProfileFlight = {}
    BY <1>1 DEF SubmitLogin, OneProfile, Flushed, Deps, InFlight, TypeInv, IssuedOnly
  <2>2. requests' = requests \cup {Made("login", u)}
    BY <1>1 DEF SubmitLogin, Carry, Made
  <2> QED BY <2>1, <2>2 DEF Made
<1>2. ASSUME Logout
      PROVE  OneLogin'
  BY <1>2 DEF Logout
<1>3. ASSUME NEW p \in Pages, Open(p)
      PROVE  OneLogin'
  BY <1>3 DEF Open
<1>4. ASSUME NEW p \in Paths, Reload(p)
      PROVE  OneLogin'
  BY <1>4 DEF Reload
<1>5. ASSUME LoaderEffect
      PROVE  OneLogin'
  <2>1. \A r \in Cancelled : r.kind = "login" => r \in LoginFlight
    BY CancelledFlights
  <2>2. \A r \in Cancelled : ~(r.kind = "me" /\ r.live)
    BY CancelledFlights
  <2>3. CASE token # NoToken /\ profile = NoUser
    <3>1. requests' = Cancelled \cup {Made("me", NoUser)} /\ UNCHANGED <<token, adopted>>
      BY <1>5, <2>3 DEF LoaderEffect, Carry, Made
    <3>2. LoginFlight' \subseteq LoginFlight
      BY <2>1, <3>1 DEF Made
    <3> QED BY <2>3, <3>1, <3>2
  <2>4. CASE ~(token # NoToken /\ profile = NoUser)
    <3>1. requests' = Cancelled /\ UNCHANGED <<token, adopted>>
      BY <1>5, <2>4 DEF LoaderEffect
    <3>2. LoginFlight' \subseteq LoginFlight /\ ProfileFlight' = {}
      BY <2>1, <2>2, <3>1
    <3> QED BY <3>1, <3>2
  <2> QED BY <2>3, <2>4
<1>6. ASSUME RequireAuth \/ RequireRole \/ LoginPage
      PROVE  OneLogin'
  BY <1>6 DEF RequireAuth, RequireRole, LoginPage
<1>7. ASSUME Query
      PROVE  OneLogin'
  <2>1. requests' = requests \cup {Made("data", NoUser)} /\ UNCHANGED <<token, adopted>>
    BY <1>7 DEF Query, Carry, Made
  <2>2. LoginFlight' = LoginFlight /\ ProfileFlight' = ProfileFlight
    BY <2>1 DEF Made
  <2> QED BY <2>1, <2>2
<1>8. ASSUME StorageEvent
      PROVE  OneLogin'
  BY <1>8 DEF StorageEvent
<1>9. ASSUME NEW r \in requests, LoginAccepted(r)
      PROVE  OneLogin'
  <2>1. LoginFlight' = {}
    BY <1>9 DEF LoginAccepted
  <2> QED BY <2>1
<1>10. ASSUME NEW r \in requests, Refused(r) \/ DataServed(r) \/ Lost(r) \/ MeServed(r)
      PROVE  OneLogin'
  <2>1. requests' \subseteq requests /\ adopted' = adopted /\ (token' = token \/ token' = NoToken)
    BY <1>10 DEF Refused, OnUnauthorized, DataServed, Lost, MeServed
  <2>2. LoginFlight' \subseteq LoginFlight /\ ProfileFlight' \subseteq ProfileFlight
    BY <2>1
  <2> QED BY <2>1, <2>2
<1>11. ASSUME NEW tk \in Tokens, Expire(tk)
      PROVE  OneLogin'
  BY <1>11 DEF Expire
<1>12. ASSUME OtherTab
      PROVE  OneLogin'
  BY <1>12 DEF OtherTab, OtherTabSignsIn, OtherTabSignsOut
<1>13. CASE UNCHANGED vars
  BY <1>13 DEF vars
<1> QED BY <1>1, <1>2, <1>3, <1>4, <1>5, <1>6, <1>7, <1>8, <1>9, <1>10, <1>11, <1>12, <1>13
     DEF Next, User, Effect, Answer

\* Every step keeps the profile in flight that of the session the page has.
LEMMA StepOneProfile ==
  ASSUME OwnerInv, [Next]_vars
  PROVE  OneProfile'
<1> USE DEF NoToken, page, router, server, ghosts, OneProfile, ProfileFlight, Undisturbed
<1>0. TypeInv /\ TokenInUse /\ OneLogin /\ OneProfile
  BY DEF OwnerInv
<1>1. ASSUME NEW u \in Users, SubmitLogin(u)
      PROVE  OneProfile'
  <2>1. requests' = requests \cup {Made("login", u)} /\ UNCHANGED <<token, profile, deps, adopted, events>>
    BY <1>1 DEF SubmitLogin, Carry, Made
  <2>2. ProfileFlight' = ProfileFlight
    BY <2>1 DEF Made
  <2> QED BY <1>0, <2>1, <2>2
<1>2. ASSUME Logout
      PROVE  OneProfile'
  BY <1>0, <1>2 DEF Logout
<1>3. ASSUME NEW p \in Pages, Open(p)
      PROVE  OneProfile'
  BY <1>0, <1>3 DEF Open
<1>4. ASSUME NEW p \in Paths, Reload(p)
      PROVE  OneProfile'
  BY <1>4 DEF Reload
<1>5. ASSUME LoaderEffect
      PROVE  OneProfile'
  <2>1. \A r \in Cancelled : ~(r.kind = "me" /\ r.live)
    BY <1>0, CancelledFlights
  <2>2. CASE token # NoToken /\ profile = NoUser
    <3>1. /\ requests' = Cancelled \cup {Made("me", NoUser)} /\ deps' = <<TRUE, NoUser>>
          /\ UNCHANGED <<token, profile, adopted, events>>
      BY <1>5, <2>2 DEF LoaderEffect, Deps, Carry, Made
    <3>2. \A r \in ProfileFlight' : r = Made("me", NoUser)
      BY <2>1, <3>1
    <3>3. Undisturbed /\ token # NoToken => Made("me", NoUser).token = token
      BY <1>0 DEF Made, TokenInUse
    <3> QED BY <2>2, <3>1, <3>2, <3>3
  <2>3. CASE ~(token # NoToken /\ profile = NoUser)
    <3>1. ProfileFlight' = {}
      BY <1>5, <2>1, <2>3 DEF LoaderEffect
    <3> QED BY <3>1
  <2> QED BY <2>2, <2>3
<1>6. ASSUME RequireAuth \/ RequireRole \/ LoginPage
      PROVE  OneProfile'
  <2>1. UNCHANGED <<requests, token, profile, deps, adopted, events>>
    BY <1>6 DEF RequireAuth, RequireRole, LoginPage
  <2> QED BY <1>0, <2>1
<1>7. ASSUME Query
      PROVE  OneProfile'
  <2>1. requests' = requests \cup {Made("data", NoUser)} /\ UNCHANGED <<token, profile, deps, adopted, events>>
    BY <1>7 DEF Query, Carry, Made
  <2>2. ProfileFlight' = ProfileFlight
    BY <2>1 DEF Made
  <2> QED BY <1>0, <2>1, <2>2
<1>8. ASSUME StorageEvent
      PROVE  OneProfile'
  BY <1>0, <1>8 DEF StorageEvent
<1>9. ASSUME NEW r \in requests, LoginAccepted(r)
      PROVE  OneProfile'
  <2>1. /\ requests' \subseteq requests /\ UNCHANGED <<deps, adopted, events>>
        /\ r \in LoginFlight
    BY <1>9 DEF LoginAccepted, LoginFlight
  <2>2. ~adopted => ProfileFlight = {}
    BY <1>0, <2>1 DEF OneLogin
  <2>3. ProfileFlight' \subseteq ProfileFlight
    BY <2>1
  <2> QED BY <1>0, <2>1, <2>2, <2>3
<1>10. ASSUME NEW r \in requests, Refused(r) \/ DataServed(r) \/ Lost(r)
      PROVE  OneProfile'
  <2>1. /\ requests' \subseteq requests /\ UNCHANGED <<profile, deps, adopted, events>>
        /\ token' = token \/ token' = NoToken
    BY <1>10 DEF Refused, OnUnauthorized, DataServed, Lost
  <2>2. ProfileFlight' \subseteq ProfileFlight
    BY <2>1
  <2> QED BY <1>0, <2>1, <2>2
<1>11. ASSUME NEW r \in requests, MeServed(r)
      PROVE  OneProfile'
  <2>1. requests' = requests \ {r} /\ UNCHANGED <<token, deps, adopted, events>>
    BY <1>11 DEF MeServed
  <2>2. ProfileFlight' \subseteq ProfileFlight
    BY <2>1
  <2>3. CASE r.live
    <3>1. ProfileFlight' = {}
      BY <1>0, <1>11, <2>1, <2>3 DEF MeServed
    <3> QED BY <3>1
  <2>4. CASE ~r.live
    <3>1. profile' = profile
      BY <1>11, <2>4 DEF MeServed
    <3> QED BY <1>0, <2>1, <2>2, <3>1
  <2> QED BY <2>3, <2>4
<1>12. ASSUME NEW tk \in Tokens, Expire(tk)
      PROVE  OneProfile'
  BY <1>0, <1>12 DEF Expire
<1>13. ASSUME OtherTab
      PROVE  OneProfile'
  <2>1. events' # <<>> /\ UNCHANGED <<requests, deps>>
    BY <1>0, <1>13 DEF OtherTab, OtherTabSignsIn, OtherTabSignsOut, Tell, TypeInv, TypeOK
  <2>2. ProfileFlight' = ProfileFlight
    BY <2>1
  <2> QED BY <1>0, <2>1, <2>2
<1>14. CASE UNCHANGED vars
  BY <1>0, <1>14 DEF vars
<1> QED BY <1>1, <1>2, <1>3, <1>4, <1>5, <1>6, <1>7, <1>8, <1>9, <1>10, <1>11, <1>12, <1>13, <1>14
     DEF Next, User, Effect, Answer

\* Every step keeps the profile its owner's: the token and the profile change
\* together, or one of them is gone.
LEMMA StepOwnProfile ==
  ASSUME OwnerInv, [Next]_vars
  PROVE  OwnProfile'
<1> USE DEF NoToken, page, router, server, ghosts, OwnProfile, Undisturbed
<1>0. TypeInv /\ OneProfile /\ OwnProfile
  BY DEF OwnerInv
<1>1. ASSUME \/ \E u \in Users : SubmitLogin(u)
             \/ \E p \in Pages : Open(p)
             \/ LoaderEffect \/ RequireAuth \/ RequireRole \/ LoginPage \/ Query
             \/ \E r \in requests : DataServed(r) \/ Lost(r)
             \/ \E tk \in Tokens : Expire(tk)
             \/ UNCHANGED vars
      PROVE  OwnProfile'
  <2>1. UNCHANGED <<token, profile, adopted, events, issued>>
    BY <1>1 DEF SubmitLogin, Open, LoaderEffect, RequireAuth, RequireRole, LoginPage, Query,
                DataServed, Lost, Expire, vars
  <2> QED BY <1>0, <2>1
<1>2. ASSUME Logout
      PROVE  OwnProfile'
  BY <1>2 DEF Logout
<1>3. ASSUME NEW p \in Paths, Reload(p)
      PROVE  OwnProfile'
  BY <1>3 DEF Reload
<1>4. ASSUME StorageEvent
      PROVE  OwnProfile'
  BY <1>4 DEF StorageEvent
<1>5. ASSUME NEW r \in requests, LoginAccepted(r)
      PROVE  OwnProfile'
  <2>1. r.user \in Users
    BY <1>0, <1>5 DEF LoginAccepted, TypeInv, IssuedOnly
  <2>2. issued'[Len(issued) + 1] = r.user
    BY <1>0, <1>5, <2>1, IssuedStays DEF LoginAccepted
  <2> QED BY <1>5, <2>2 DEF LoginAccepted, SignIn
<1>6. ASSUME NEW r \in requests, Refused(r)
      PROVE  OwnProfile'
  BY <1>6 DEF Refused, OnUnauthorized
<1>7. ASSUME NEW r \in requests, MeServed(r)
      PROVE  OwnProfile'
  <2>1. UNCHANGED <<token, adopted, events, issued>>
    BY <1>7 DEF MeServed
  <2>2. CASE r.live
    <3>1. r \in ProfileFlight /\ profile' = issued[r.token]
      BY <1>7, <2>2 DEF MeServed, ProfileFlight
    <3> QED BY <1>0, <2>1, <3>1 DEF OneProfile
  <2>3. CASE ~r.live
    BY <1>0, <1>7, <2>1, <2>3 DEF MeServed
  <2> QED BY <2>2, <2>3
<1>8. ASSUME OtherTab
      PROVE  OwnProfile'
  <2>1. events' # <<>>
    BY <1>0, <1>8 DEF OtherTab, OtherTabSignsIn, OtherTabSignsOut, Tell, TypeInv, TypeOK
  <2> QED BY <2>1
<1> QED BY <1>1, <1>2, <1>3, <1>4, <1>5, <1>6, <1>7, <1>8 DEF Next, User, Effect, Answer

\* A page judges by the profile of its own session, however late a profile asked for
\* by an earlier one arrives, for any accounts and any number of sessions.
THEOREM ProfileOfSession == Spec => []ProfileIsOwners
<1>1. Init => OwnerInv
  <2> SUFFICES ASSUME Init PROVE OwnerInv
    OBVIOUS
  <2>1. TypeInv
    BY InitTypes
  <2> QED BY <2>1 DEF Init, OwnerInv, TokenInUse, OneLogin, OneProfile, OwnProfile, LoginFlight, ProfileFlight
<1>2. OwnerInv /\ [Next]_vars => OwnerInv'
  <2> SUFFICES ASSUME OwnerInv, [Next]_vars PROVE OwnerInv'
    OBVIOUS
  <2>1. TypeInv /\ TokenInUse /\ OneLogin /\ OneProfile
    BY DEF OwnerInv
  <2> QED BY <2>1, StepTypes, StepTokenInUse, StepOneLogin, StepOneProfile, StepOwnProfile DEF OwnerInv
<1>3. OwnerInv => ProfileIsOwners
  BY DEF OwnerInv, OwnProfile, ProfileIsOwners
<1> QED BY <1>1, <1>2, <1>3, PTL DEF Spec

-----------------------------------------------------------------------------
(* A good session lasts.                                                   *)

\* Every step keeps it so: what ends a session says so.
LEMMA StepGoodSession ==
  ASSUME TypeInv, GoodSession, [Next]_vars
  PROVE  GoodSession' /\ (~disturbed' /\ token # NoToken => token' # NoToken)
<1> DEFINE Goal == GoodSession' /\ (~disturbed' /\ token # NoToken => token' # NoToken)
<1> USE DEF NoToken, page, router, server, ghosts, GoodSession
<1>0. /\ ~disturbed /\ token # NoToken => GetToken # NoToken
      /\ Len(issued) \in Nat
  BY DEF GetToken, TypeInv, TypeOK
<1>1. ASSUME NEW u \in Users, SubmitLogin(u)
      PROVE  Goal
  <2>1. requests' = requests \cup {Made("login", u)} /\ UNCHANGED <<expired, storage, events, token, disturbed>>
    BY <1>1 DEF SubmitLogin, Carry, Made
  <2> QED BY <2>1 DEF Made
<1>2. ASSUME Logout
      PROVE  Goal
  BY <1>2 DEF Logout
<1>3. ASSUME NEW p \in Pages, Open(p)
      PROVE  Goal
  BY <1>3 DEF Open
<1>4. ASSUME NEW p \in Paths, Reload(p)
      PROVE  Goal
  BY <1>4 DEF Reload
<1>5. ASSUME LoaderEffect
      PROVE  Goal
  <2>1. UNCHANGED <<expired, storage, events, token, disturbed>>
    BY <1>5 DEF LoaderEffect
  <2>2. ASSUME ~disturbed, NEW r \in Cancelled, r.kind # "login"
        PROVE  r.token # NoToken
    <3>1. PICK q \in requests :
            /\ r.kind = q.kind /\ r.token = q.token
            /\ q.kind # "me" => r = q
      BY CancelledRequests
    <3> QED BY <2>2, <3>1
  <2>3. requests' = Cancelled \/ (token # NoToken /\ requests' = Cancelled \cup {Made("me", NoUser)})
    BY <1>5 DEF LoaderEffect, Carry, Made
  <2> QED BY <1>0, <2>1, <2>2, <2>3 DEF Made
<1>6. ASSUME RequireAuth \/ RequireRole \/ LoginPage
      PROVE  Goal
  BY <1>6 DEF RequireAuth, RequireRole, LoginPage
<1>7. ASSUME Query
      PROVE  Goal
  <2>1. /\ requests' = requests \cup {Made("data", NoUser)} /\ token # NoToken
        /\ UNCHANGED <<expired, storage, events, token, disturbed>>
    BY <1>7 DEF Query, Carry, Made
  <2> QED BY <1>0, <2>1 DEF Made
<1>8. ASSUME StorageEvent
      PROVE  Goal
  <2>1. /\ events # <<>> /\ events' = Tail(events) /\ token' = Head(events)
        /\ UNCHANGED <<expired, storage, requests, disturbed>>
    BY <1>8 DEF StorageEvent
  <2>2. /\ Head(events) = events[1] /\ 1 \in 1..Len(events)
        /\ \A i \in 1..Len(events') : i + 1 \in 1..Len(events) /\ events'[i] = events[i + 1]
    BY <2>1 DEF TypeInv, TypeOK
  <2> QED BY <2>1, <2>2
<1>9. ASSUME NEW r \in requests, LoginAccepted(r)
      PROVE  Goal
  BY <1>0, <1>9 DEF LoginAccepted, SignIn
<1>10. ASSUME NEW r \in requests, Refused(r)
      PROVE  Goal
  BY <1>10 DEF Refused, OnUnauthorized
<1>11. ASSUME NEW r \in requests, DataServed(r) \/ Lost(r) \/ MeServed(r)
      PROVE  Goal
  BY <1>11 DEF DataServed, Lost, MeServed
<1>12. ASSUME NEW tk \in Tokens, Expire(tk)
      PROVE  Goal
  BY <1>12 DEF Expire
<1>13. ASSUME NEW u \in Users, OtherTabSignsIn(u)
      PROVE  Goal
  <2>1. /\ events' = Append(events, Len(issued) + 1) /\ storage' = Len(issued) + 1
        /\ UNCHANGED <<expired, token, requests, disturbed>>
    BY <1>13 DEF OtherTabSignsIn, Tell
  <2>2. \A i \in 1..Len(events') :
          events'[i] = Len(issued) + 1 \/ (i \in 1..Len(events) /\ events'[i] = events[i])
    BY <2>1 DEF TypeInv, TypeOK
  <2> QED BY <1>0, <2>1, <2>2
<1>14. ASSUME OtherTabSignsOut
      PROVE  Goal
  BY <1>14 DEF OtherTabSignsOut
<1>15. CASE UNCHANGED vars
  BY <1>15 DEF vars
<1> QED BY <1>1, <1>2, <1>3, <1>4, <1>5, <1>6, <1>7, <1>8, <1>9, <1>10, <1>11, <1>12, <1>13, <1>14, <1>15
     DEF Next, User, Effect, Answer, OtherTab

\* While nobody logs out, mistypes and no token expires, no order of reloads, late
\* answers and sign-ins of other tabs ends the session of a page.
THEOREM SessionLasts == Spec => SessionKept
<1>1. Init => TypeInv /\ GoodSession
  <2> SUFFICES ASSUME Init PROVE TypeInv /\ GoodSession
    OBVIOUS
  <2>1. events = <<>> /\ Len(events) = 0
    BY DEF Init
  <2>2. GoodSession
    BY <2>1 DEF Init, GoodSession
  <2> QED BY <2>2, InitTypes
<1>2. TypeInv /\ GoodSession /\ [Next]_vars => TypeInv' /\ GoodSession'
  BY StepTypes, StepGoodSession
<1>3. TypeInv /\ GoodSession /\ [Next]_vars => [~disturbed' /\ token # NoToken => token' # NoToken]_vars
  BY StepGoodSession
<1> QED BY <1>1, <1>2, <1>3, PTL DEF Spec, SessionKept

=============================================================================
