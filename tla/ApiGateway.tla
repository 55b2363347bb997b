------------------------------ MODULE ApiGateway ------------------------------
(***************************************************************************)
(* The API gateway: worker processes of one cluster, each with the caches it *)
(* keeps in memory.  A request passes the guards in the order they are       *)
(* registered (token, role, rate limit, plan) and its handler then calls     *)
(* services over TCP, without a timeout: its route.                          *)
(*                                                                         *)
(* All requests are of one user, or come from one address; the services are  *)
(* represented by how a call of them ends.                                   *)
(***************************************************************************)
EXTENDS Naturals, Sequences

CONSTANTS Workers, Requests,
          Asked,      \* the routes that are asked for
          MaxServed,  \* bound: requests in all
          MaxNow,     \* bound: the clock
          None

VARIABLES now,
          pro,      \* [value, since]: the user's plan has video calls
          roster,   \* [value, since]: the members of a channel, as a revision
          out,      \* the log-outs that have ended: [blacklist: of this token, version: of all]
          window,   \* Redis: [count, ends] of the key of each limited route
          limits,   \* cache of SubscriptionGuard: [value, expires] per worker and guard
          members,  \* membersCache of ChannelService: [promise, expires] per worker
          promise,  \* the promises of calls, by the number of the request that made them
          req, served,
          admitted  \* history: [count, since]: what the rate limit let pass since a window began

\* seconds of the code in steps of the clock
Ticks(s) == CASE s = 1 -> 1 [] s = 60 -> 3 [] OTHER -> 2

vars == <<now, pro, roster, out, window, limits, members, promise, req, served, admitted>>

-----------------------------------------------------------------------------
(* What the handlers do: a route is who may come, how often, the stages of    *)
(* calls that are made one after the other, and what is done with their       *)
(* errors.  Routes that do the same are one element of Routes.                *)

\* calls made together, each of which must succeed; or whose failure is passed over
Must(services) == [to |-> services, must |-> TRUE]
May(services)  == [to |-> services, must |-> FALSE]

\* mask: what any error is answered with; raw: errors are not mapped by the handler
Private(stages) == [public |-> FALSE, path |-> "", limit |-> 0, span |-> 60, admin |-> FALSE, feature |-> FALSE,
                    memo |-> FALSE, mask |-> 0, raw |-> FALSE, stages |-> stages]
Open(stages) == [Private(stages) EXCEPT !.public = TRUE]
Limited(route, path, n, seconds) == [route EXCEPT !.path = path, !.limit = n, !.span = seconds]
Masked(route, status) == [route EXCEPT !.mask = status]
Raw(route) == [route EXCEPT !.raw = TRUE]

\* the clients of the services
ToAuth          == Must({"auth"})
ToOAuth         == Must({"auth"})
ToUser          == Must({"user"})
ToWorkspace     == Must({"workspace"})
ToChannel       == Must({"channel"})
ToMessage       == Must({"message"})
ToTask          == Must({"task"})
ToCalendar      == Must({"calendar"})
ToNotification  == Must({"notification"})
ToVideoCall     == Must({"video-call"})
ToBilling       == Must({"billing"})
ToCanvas        == Must({"canvas"})
ToIntegrations  == Must({"integrations"})
ToOrchestration == Must({"orchestration"})
\* getSidebarSummary(): both at once
ToSidebar       == Must({"channel", "notification"})
\* addJob() of BullMQ
ToQueue         == Must({"queue"})
\* uploadFaceImage(): without the image when Cloudinary fails
FaceImage       == May({"cloudinary"})

AuthRoutes ==
  {Limited(Open(<<ToAuth>>), path, 3, 60) : path \in {"register", "forgot-password", "reset-password", "resend-code"}}
  \cup {Limited(Open(<<ToAuth>>), path, 5, 60) : path \in {"login", "verify-otp"}}
  \cup {Open(<<ToAuth>>), Private(<<ToAuth>>)}
\* the client is redirected to the provider, whose discovery may fail
SsoLogin == Open(<<ToWorkspace, May({"provider"})>>)
\* find the configuration; discovery, code for token; log in; join the workspace.
\* Errors are a page of status 200
OidcCallback ==
  Masked(Open(<<ToWorkspace, May({"provider"}), Must({"provider"}), ToAuth, ToWorkspace>>), 200)
SamlCallback == Masked(Open(<<ToWorkspace, ToAuth, ToWorkspace>>), 200)
OAuthRoutes ==
  {Private(<<ToOAuth>>), Open(<<ToOAuth>>), Open(<<ToOAuth, ToChannel>>)}
UserRoutes == {Private(<<ToUser>>), Open(<<ToUser>>), [Private(<<ToUser>>) EXCEPT !.admin = TRUE]}
WorkspaceRoutes == {Private(<<ToWorkspace>>), Private(<<ToSidebar>>)}
MemberRoutes == {Private(<<ToWorkspace>>)}
AppRoutes    == {Private(<<ToWorkspace>>)}
\* the configuration of an e-mail's domain is public
SsoRoutes == {Private(<<ToWorkspace>>), Open(<<ToWorkspace>>)}
\* the members are answered from the promise of the last two seconds
ChannelRoutes == {Private(<<ToChannel>>), [Private(<<ToChannel>>) EXCEPT !.memo = TRUE]}
\* the history is cut to what the plan allows, unless billing does not answer
MessageRoutes ==
  {Limited(Private(<<ToMessage>>), "messages", 10, 10), Private(<<May({"billing"}), ToMessage>>), Private(<<ToMessage>>)}
ThreadRoutes == {Private(<<ToMessage>>)}
\* a board is created by those whom the workspace permits it
BoardRoutes == {Private(<<ToWorkspace, ToTask>>), Private(<<ToTask>>)}
ChecklistRoutes == {Private(<<ToTask>>)}
TaskRoutes == {Private(<<ToTask>>)}
CalendarRoutes   == {Private(<<ToCalendar>>)}
HolidayRoutes    == {Private(<<ToCalendar>>)}
AttendanceRoutes ==
  {Private(<<ToCalendar>>), Private(<<FaceImage, ToCalendar>>)}
  \cup {Limited(Private(<<FaceImage, ToCalendar>>), path, 5, 60) : path \in {"check-in", "check-out"}}
NotificationRoutes == {Private(<<ToNotification>>)}
VideoCallRoutes ==
  {Private(<<ToVideoCall>>), Open(<<ToVideoCall>>), [Private(<<ToVideoCall>>) EXCEPT !.feature = TRUE]}
BillingRoutes == {Private(<<ToBilling>>)}
StripeWebhook == Open(<<ToBilling>>)
CanvasRoutes == {Private(<<ToCanvas>>)}
AiRoutes == {Raw(Private(<<ToIntegrations>>)), Private(<<ToIntegrations>>)}
AiProviderRoutes ==
  {Limited(Private(<<ToOrchestration>>), path, 10, 60) : path \in {"approvals", "stop"}}
  \cup {Private(<<ToOrchestration>>), Open(<<ToOrchestration>>)}
IntegrationRoutes == {Private(<<ToIntegrations>>), Limited(Private(<<ToIntegrations>>), "auth", 5, 60)}
IntegrationCallback == Limited(Open(<<ToIntegrations>>), "callback", 10, 60)
\* verified, then queued; whatever fails is answered as an invalid token
ReceiveWebhook == Limited(Masked(Open(<<ToChannel, ToQueue>>), 401), "hooks", 1, 1)
ReceiveCommandResponse == Limited(Masked(Open(<<ToWorkspace, ToQueue>>), 401), "response", 1, 1)
ReceiveIntegrationWebhook == Limited(Raw(Open(<<ToIntegrations>>)), "integrations", 5, 1)
OpenView == Masked(Open(<<ToWorkspace, ToQueue>>), 401)
\* its own metrics, and those of orchestration when it answers
Metrics == Open(<<May({"orchestration"})>>)
HealthRoutes == {Open(<< >>), Private(<< >>)}

Routes ==
  AuthRoutes \cup OAuthRoutes \cup UserRoutes \cup WorkspaceRoutes \cup MemberRoutes \cup AppRoutes \cup SsoRoutes
  \cup ChannelRoutes \cup MessageRoutes
  \cup ThreadRoutes \cup BoardRoutes \cup ChecklistRoutes \cup TaskRoutes
  \cup CalendarRoutes \cup AttendanceRoutes \cup HolidayRoutes \cup NotificationRoutes \cup VideoCallRoutes
  \cup BillingRoutes \cup CanvasRoutes \cup AiRoutes \cup AiProviderRoutes \cup IntegrationRoutes
  \cup HealthRoutes
  \cup {SsoLogin, OidcCallback, SamlCallback, StripeWebhook, IntegrationCallback, ReceiveWebhook,
        ReceiveCommandResponse, ReceiveIntegrationWebhook, OpenView, Metrics}

LimitedRoutes == {p \in Routes : p.limit # 0}
Paths == {p.path : p \in LimitedRoutes}

-----------------------------------------------------------------------------
(* Errors: what a call ends with, and the status the client gets.            *)

\* of a service: refuses (an HttpException), meets a constraint of its database,
\* finds the input invalid, breaks; of the connection: refused, or lost while the
\* service works
Refused == {"refused", "constraint", "invalid"}
Failed  == {"broken", "unreachable", "lost"}

\* AllRpcExceptionFilter of every service: 403 stands for the status it threw with
RpcStatus == [refused |-> 403, constraint |-> 409, invalid |-> 400, broken |-> 500]

\* MicroserviceErrorHandler: the status of the payload, or by the text of the message
ErrorStatus(e) ==
  IF e \in DOMAIN RpcStatus THEN RpcStatus[e] ELSE IF e = "lost" THEN 408 ELSE 502

\* HttpExceptionFilter, of errors that come to it as they are
RawStatus(e) == IF e \in DOMAIN RpcStatus THEN RpcStatus[e] ELSE 500

Answered(route, e) ==
  IF route.mask # 0 THEN route.mask ELSE IF route.raw THEN RawStatus(e) ELSE ErrorStatus(e)

-----------------------------------------------------------------------------
NoEntry == [value |-> FALSE, expires |-> 0]
NoMembers == [promise |-> 0, expires |-> 0]
Nothing == [pc |-> "idle", n |-> 0, route |-> Metrics, at |-> None, bearer |-> FALSE, admin |-> FALSE,
            unchecked |-> {}, came |-> 0, guard |-> "app", asked |-> 0, got |-> FALSE, stage |-> 1,
            awaits |-> 0, stale |-> FALSE, after |-> FALSE, met |-> {}, status |-> 0]

Guards == {"app", "route"}  \* APP_GUARD, and @UseGuards() of joinHuddle()

TypeOK ==
  /\ now \in 0..MaxNow /\ served \in 0..MaxServed
  /\ {pro.since, roster.since} \subseteq 0..now
  /\ \A p \in Paths : window[p].count <= MaxServed
  /\ \A w \in Workers : members[w].promise \in 0..served
  /\ \A r \in Requests :
       /\ req[r].pc \in {"idle", "token", "role", "rate", "plan", "limits", "read", "call", "promise", "answered"}
       /\ req[r].status \in {0, 200, 400, 401, 403, 408, 409, 429, 500, 502}

Init ==
  /\ now = 0 /\ pro \in [value : BOOLEAN, since : {0}] /\ roster = [value |-> 0, since |-> 0]
  /\ out = [blacklist |-> FALSE, version |-> FALSE]
  /\ window = [p \in Paths |-> [count |-> 0, ends |-> 0]]
  /\ limits = [w \in Workers |-> [g \in Guards |-> NoEntry]]
  /\ members = [w \in Workers |-> NoMembers]
  /\ promise = [n \in 1..MaxServed |-> [state |-> "none", value |-> 0]]
  /\ req = [r \in Requests |-> Nothing] /\ served = 0
  /\ admitted = [p \in Paths |-> [count |-> 0, since |-> 0]]

Memory == <<limits, members, promise>>
World == <<now, pro, roster, out>>

Answer(r, status) == req' = [req EXCEPT ![r].pc = "answered", ![r].status = status]
AnswerError(r, status, e) ==
  req' = [req EXCEPT ![r].pc = "answered", ![r].status = status, ![r].met = @ \cup {e}]

-----------------------------------------------------------------------------
(* The guards.                                                               *)

Arrive(r, w, route) == \E bearer, admin \in BOOLEAN :
  /\ req[r].pc \in {"idle", "answered"} /\ served < MaxServed /\ served' = served + 1
  /\ (admin => bearer /\ route.admin) /\ (route.public => ~ bearer)
  /\ req' = [req EXCEPT ![r] = [Nothing EXCEPT
       !.pc = "token", !.n = served + 1, !.route = route, !.at = w, !.bearer = bearer, !.admin = admin,
       !.unchecked = {"blacklist", "version"}, !.came = now, !.after = out.blacklist \/ out.version]]
  /\ UNCHANGED <<World, Memory, window, admitted>>

\* JwtAuthGuard: no token, or one that does not verify
NoToken(r) ==
  /\ req[r].pc = "token" /\ ~ req[r].route.public /\ ~ req[r].bearer
  /\ Answer(r, 401) /\ UNCHANGED <<World, Memory, window, served, admitted>>

\* isBlacklisted() and getUserTokenVersion() at once; without Redis it is as if the
\* token were not valid
CheckToken(r, what) ==
  /\ req[r].pc = "token" /\ req[r].bearer /\ what \in req[r].unchecked
  /\ \/ out[what] /\ Answer(r, 401)
     \/ AnswerError(r, 401, "redis")
     \/ ~ out[what] /\ req' = [req EXCEPT ![r].unchecked = @ \ {what}]
  /\ UNCHANGED <<World, Memory, window, served, admitted>>

PassToken(r) ==
  /\ req[r].pc = "token" /\ (req[r].route.public \/ req[r].unchecked = {})
  /\ req' = [req EXCEPT ![r].pc = "role"]
  /\ UNCHANGED <<World, Memory, window, served, admitted>>

RolesGuard(r) ==
  /\ req[r].pc = "role"
  /\ IF req[r].route.admin /\ ~ req[r].admin THEN Answer(r, 403)
     ELSE req' = [req EXCEPT ![r].pc = IF req[r].route.limit = 0 THEN "plan" ELSE "rate"]
  /\ UNCHANGED <<World, Memory, window, served, admitted>>

\* INCR, with EXPIRE on the first of a window: the script is atomic
Increment(p) == LET w == window[p.path] IN
  IF w.ends > now THEN [w EXCEPT !.count = @ + 1] ELSE [count |-> 1, ends |-> now + Ticks(p.span)]

RateLimitGuard(r) == LET p == req[r].route IN
  /\ req[r].pc = "rate"
  /\ window' = [window EXCEPT ![p.path] = Increment(p)]
  /\ IF Increment(p).count <= p.limit
     THEN /\ req' = [req EXCEPT ![r].pc = "plan"]
          /\ admitted' = [admitted EXCEPT ![p.path] =
               IF Increment(p).count = 1 THEN [count |-> 1, since |-> now] ELSE [@ EXCEPT !.count = @ + 1]]
     ELSE Answer(r, 429) /\ UNCHANGED admitted
  /\ UNCHANGED <<World, Memory, served>>

\* an error of Redis is not caught
RateLimitFails(r) ==
  /\ req[r].pc = "rate" /\ AnswerError(r, 500, "redis")
  /\ UNCHANGED <<World, Memory, window, served, admitted>>

\* the next guard, the handler, or the refusal.  stale: the answer is not the plan of
\* now, which has not changed since before the request came, for a TTL and longer
Decide(r, value) ==
  req' = [req EXCEPT ![r] =
    [@ EXCEPT !.stale = @ \/ (/\ value # pro.value /\ req[r].came > pro.since
                             /\ now >= pro.since + Ticks(60)),
              !.pc = IF ~ value THEN "answered" ELSE IF req[r].guard = "app" THEN "plan" ELSE "call",
              !.status = IF value THEN 0 ELSE 403,
              !.guard = "route"]]

\* SubscriptionGuard: the limits from memory, or asked of billing
SubscriptionGuard(r) == LET e == limits[req[r].at][req[r].guard] IN
  /\ req[r].pc = "plan"
  /\ IF ~ req[r].route.feature THEN req' = [req EXCEPT ![r].pc = "call"]
     ELSE IF e.expires > now THEN Decide(r, e.value)
     ELSE req' = [req EXCEPT ![r].pc = "limits", ![r].asked = now]
  /\ UNCHANGED <<World, Memory, window, served, admitted>>

\* Mutant: the entry counts from the answer.
ExpiryFromAnswer(r) == now + Ticks(60)
\* the entry counts from before the question
Expiry(r) == req[r].asked + Ticks(60)

\* billing reads the plan; its answer comes later
ReadPlan(r) ==
  /\ req[r].pc = "limits" /\ req' = [req EXCEPT ![r].pc = "read", ![r].got = pro.value]
  /\ UNCHANGED <<World, Memory, window, served, admitted>>

GetFeatureLimits(r) ==
  /\ req[r].pc = "read"
  /\ limits' = [limits EXCEPT ![req[r].at][req[r].guard] = [value |-> req[r].got, expires |-> Expiry(r)]]
  /\ Decide(r, req[r].got)
  /\ UNCHANGED <<World, members, promise, window, served, admitted>>

\* billing is unavailable: FREE_LIMITS, for this request
FreeLimits(r) ==
  /\ req[r].pc \in {"limits", "read"} /\ AnswerError(r, 403, "billing")
  /\ UNCHANGED <<World, Memory, window, served, admitted>>

-----------------------------------------------------------------------------
(* The handlers.                                                             *)

Stages(r) == req[r].route.stages
Step(r) == req' = [req EXCEPT ![r].stage = @ + 1]

Call(r) ==
  /\ req[r].pc = "call" /\ req[r].stage <= Len(Stages(r)) /\ ~ req[r].route.memo
  /\ \/ Step(r)
     \/ \E e \in Refused \cup Failed :
          IF Stages(r)[req[r].stage].must THEN AnswerError(r, Answered(req[r].route, e), e) ELSE Step(r)
  /\ UNCHANGED <<World, Memory, window, served, admitted>>

Reply(r) ==
  /\ req[r].pc = "call" /\ req[r].stage > Len(Stages(r))
  /\ Answer(r, 200)
  /\ UNCHANGED <<World, Memory, window, served, admitted>>

\* getMembers(): the promise of a call is kept, whether it is pending, fulfilled or rejected
GetMembers(r) == LET m == members[req[r].at] IN
  /\ req[r].pc = "call" /\ req[r].route.memo
  /\ IF m.expires > now
     THEN /\ req' = [req EXCEPT ![r].pc = "promise", ![r].awaits = m.promise]
          /\ UNCHANGED <<members, promise>>
     ELSE /\ req' = [req EXCEPT ![r].pc = "promise", ![r].awaits = req[r].n]
          /\ members' = [members EXCEPT ![req[r].at] = [promise |-> req[r].n, expires |-> now + Ticks(2)]]
          /\ promise' = [promise EXCEPT ![req[r].n].state = "pending"]
  /\ UNCHANGED <<World, limits, window, served, admitted>>

Settle(n) ==
  /\ promise[n].state = "pending"
  /\ \/ promise' = [promise EXCEPT ![n] = [state |-> "fulfilled", value |-> roster.value]]
     \/ \E e \in Refused \cup Failed : promise' = [promise EXCEPT ![n].state = e]
  /\ UNCHANGED <<World, limits, members, req, window, served, admitted>>

\* stale: the members of before a change that the request came a TTL after
ReplyMembers(r) == LET m == promise[req[r].awaits] IN
  /\ req[r].pc = "promise" /\ m.state # "pending"
  /\ IF m.state = "fulfilled"
     THEN req' = [req EXCEPT ![r].pc = "answered", ![r].status = 200,
            ![r].stale = m.value # roster.value /\ req[r].came >= roster.since + Ticks(2)]
     ELSE AnswerError(r, ErrorStatus(m.state), m.state)
  /\ UNCHANGED <<World, Memory, window, served, admitted>>

-----------------------------------------------------------------------------
(* Around it.                                                                *)

Tick == /\ now < MaxNow /\ now' = now + 1
        /\ UNCHANGED <<pro, roster, out, Memory, window, req, served, admitted>>

\* each once
PlanChanges == /\ pro.since = 0 /\ now > 0 /\ pro' = [value |-> ~ pro.value, since |-> now]
               /\ UNCHANGED <<now, roster, out, Memory, window, req, served, admitted>>
RosterChanges == /\ roster.since = 0 /\ now > 0 /\ roster' = [value |-> 1, since |-> now]
                 /\ UNCHANGED <<now, pro, out, Memory, window, req, served, admitted>>
LogOut(what) == /\ ~ out[what] /\ out' = [out EXCEPT ![what] = TRUE]
                /\ UNCHANGED <<now, pro, roster, Memory, window, req, served, admitted>>

\* the primary forks another worker; the connections of this one are closed
WorkerDies(w) ==
  /\ limits' = [limits EXCEPT ![w] = [g \in Guards |-> NoEntry]]
  /\ members' = [members EXCEPT ![w] = NoMembers]
  /\ req' = [r \in Requests |-> IF req[r].at = w /\ req[r].pc # "answered" THEN Nothing ELSE req[r]]
  /\ UNCHANGED <<World, promise, window, served, admitted>>

Next ==
  \/ \E r \in Requests :
       \/ \E w \in Workers, route \in Asked : Arrive(r, w, route)
       \/ NoToken(r) \/ (\E what \in {"blacklist", "version"} : CheckToken(r, what)) \/ PassToken(r)
       \/ RolesGuard(r) \/ RateLimitGuard(r) \/ RateLimitFails(r)
       \/ SubscriptionGuard(r) \/ ReadPlan(r) \/ GetFeatureLimits(r) \/ FreeLimits(r)
       \/ Call(r) \/ Reply(r) \/ GetMembers(r) \/ ReplyMembers(r)
  \/ \E n \in 1..MaxServed : Settle(n)
  \/ Tick \/ PlanChanges \/ RosterChanges
  \/ (\E what \in {"blacklist", "version"} : LogOut(what))
  \/ \E w \in Workers : WorkerDies(w)

Spec == Init /\ [][Next]_vars

-----------------------------------------------------------------------------
\* Whose log-out had ended when the request came does not get past the token's guard
\* (JwtAuthGuard against logout() and logoutAll()).
LoggedOutIsRefused ==
  \A r \in Requests : req[r].after /\ req[r].bearer =>
    req[r].pc = "token" \/ (req[r].pc = "answered" /\ req[r].status = 401)

\* In a window no more pass than the limit, and whoever is refused waits at most
\* the window: requests that are refused do not make it longer.
WindowsHold == \A p \in LimitedRoutes :
  /\ admitted[p.path].count <= p.limit
  /\ window[p.path].ends <= admitted[p.path].since + Ticks(p.span)

\* What a process has in memory, or a flight brings late, answers a request at most a
\* TTL after the plan or the members have changed.
MemoryFollows == \A r \in Requests : ~ req[r].stale

\* The status says who is at fault: what a service refuses reaches the client as it
\* refused it, and a server error is one.
StatusFits == \A r \in Requests : req[r].pc = "answered" /\ req[r].route.mask = 0 =>
  LET s == req[r].status IN LET met == req[r].met IN
  /\ s = 200 => met = {}
  /\ s >= 500 => met \cap (Failed \cup {"redis"}) # {}
  /\ s = 408 => "lost" \in met
  /\ met \cap Refused # {} => s \in {RpcStatus[e] : e \in met \cap Refused}
  /\ s = 401 => "redis" \in met \/ ~ req[r].bearer \/ out.blacklist \/ out.version
  /\ s = 403 => met \cap {"refused", "billing"} # {} \/ req[r].route.admin \/ req[r].route.feature

=============================================================================
