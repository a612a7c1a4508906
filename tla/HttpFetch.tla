------------------------------ MODULE HttpFetch ------------------------------
(***************************************************************************)
(* The HTTP client (hoster/httpclient.rs): redirects followed by hand, two *)
(* transports, retries without end, bounded retries of a body that stalls; *)
(* under it the resolver with its DNS-over-HTTPS fallback                  *)
(* (hoster/resolver.rs).                                                   *)
(*                                                                         *)
(* What a URL leads to is fixed (site); the link, the proxy and the system *)
(* resolver come and go, servers are busy at times.                        *)
(***************************************************************************)
EXTENDS Naturals, FiniteSets

CONSTANTS
    Fetches,        \* requests, each by a thread of its own
    MaxRedirects, SlowRetries

VARIABLES
    site,       \* by fetch: "serves", "moved", "renamed", "missing",
                \* "offlist", "ring"
    rq,         \* by fetch: kind, step, transport, host and number of the hop,
                \* bodies begun again
    cooling,    \* by fetch: the hosts its resolver asked DoH for just now
    env         \* link, proxy and system resolver are up

httpVars == <<site, rq, cooling, env>>

Listed == {"api", "raw"}        \* ALLOWED_ENDPOINTS
Sites == {"serves", "moved", "renamed", "missing", "offlist", "ring"}
Ended == {"ok", "failed"}
EnvFlags == {"link", "proxy", "dns"}
Configured == env["proxy"] # "none"

HttpInit ==
    /\ site \in [Fetches -> Sites]
    /\ \E kind \in [Fetches -> {"text", "slow", "head"}] :
           rq = [f \in Fetches |-> [kind |-> kind[f], at |-> "send", via |-> "proxy",
                                    host |-> "api", hop |-> 0, again |-> 0]]
    /\ cooling = [f \in Fetches |-> {}]
    /\ \E p \in {"none", "up"} : env = [e \in EnvFlags |-> IF e = "proxy" THEN p ELSE "up"]

EnvChanges ==
    \E e \in EnvFlags :
        /\ env[e] # "none"
        /\ env' = [env EXCEPT ![e] = IF @ = "up" THEN "down" ELSE "up"]
        /\ UNCHANGED <<site, rq, cooling>>

(***************************************************************************)
(* SmartResolver of the transport that resolves names itself, once a hop.  *)
(* A cached answer and a new one are the same here: doh_resolve tests the  *)
(* cooldown before its cache, and starts it whatever the outcome, so that  *)
(* a second hop to the host it has just resolved is refused.               *)
(***************************************************************************)
ByProxy(f) == rq[f].via = "proxy" /\ Configured
Resolves(f) == env["dns"] = "up" \/ rq[f].host \notin cooling[f]

\* The cooldown starts whenever doh_resolve gets past it.
doh_resolve(f) ==
    cooling' = IF ByProxy(f) \/ env["dns"] = "up" THEN cooling
               ELSE [cooling EXCEPT ![f] = @ \cup {rq[f].host}]

CooldownEnds(f) ==
    /\ cooling[f] # {}
    /\ cooling' = [cooling EXCEPT ![f] = {}]
    /\ UNCHANGED <<site, rq, env>>

Restart(f, n) == [rq EXCEPT ![f].at = "send", ![f].via = "proxy", ![f].host = "api",
                            ![f].hop = 0, ![f].again = @ + n]

(***************************************************************************)
(* One attempt over one transport.                                         *)
(***************************************************************************)
Reachable(f) ==
    /\ rq[f].host \in Listed /\ rq[f].hop <= MaxRedirects
    /\ env["link"] = "up"
    /\ IF ByProxy(f) THEN env["proxy"] = "up" ELSE Resolves(f)

\* Mutation: a dead proxy is never passed by.
FailByProxy(f) ==
    [rq EXCEPT ![f].at = IF rq[f].kind = "head" THEN "failed" ELSE "pause",
               ![f].host = "api", ![f].hop = 0]

\* The transport failed: the direct one is next, when a proxy was used; then
\* the pause, or the end of a probe.
Fail(f) ==
    [rq EXCEPT ![f].at = CASE ByProxy(f) -> "send"
                           [] rq[f].kind = "head" -> "failed"
                           [] OTHER -> "pause",
               ![f].via = "direct", ![f].host = "api", ![f].hop = 0]

\* A host outside the list, too many hops, no route, no address; or a reset.
NoAnswer(f) ==
    /\ rq[f].at = "send"
    /\ rq' = Fail(f)
    /\ doh_resolve(f)
    /\ UNCHANGED <<site, env>>

\* 403 or a server error: fetch pauses at once; a probe takes any refusal for a
\* failed transport.
Busy(f) ==
    /\ rq[f].at = "send" /\ Reachable(f)
    /\ rq' = IF rq[f].kind = "head" THEN Fail(f) ELSE [rq EXCEPT ![f].at = "pause"]
    /\ doh_resolve(f)
    /\ UNCHANGED <<site, env>>

Redirect(f) ==
    CASE site[f] = "moved" /\ rq[f].host = "api" -> {"raw"}
      [] site[f] = "renamed" /\ rq[f].hop = 0 -> {"api"}
      [] site[f] = "offlist" -> {"other"}
      [] site[f] = "ring" -> {"api"}
      [] OTHER -> {}

\* fetch_slow_bytes_with: any error begins a slow fetch again, over agents, and
\* so resolvers, of its own.
Broken(f) ==
    /\ rq' = IF rq[f].kind = "slow" /\ rq[f].again < SlowRetries
             THEN Restart(f, 1)
             ELSE [rq EXCEPT ![f].at = "failed"]
    /\ cooling' = [cooling EXCEPT ![f] = {}]

\* What the URL leads to: one more hop, or the final answer.
Answer(f) ==
    /\ rq[f].at = "send" /\ Reachable(f)
    /\ \/ \E h \in Redirect(f) :
              rq' = [rq EXCEPT ![f].host = h, ![f].hop = @ + 1] /\ doh_resolve(f)
       \/ /\ Redirect(f) = {} /\ site[f] # "missing"
          /\ rq' = [rq EXCEPT ![f].at = IF rq[f].kind = "head" THEN "ok" ELSE "body"]
          /\ doh_resolve(f)
       \/ /\ site[f] = "missing" /\ rq[f].kind = "head"
          /\ rq' = Fail(f) /\ doh_resolve(f)
       \/ /\ site[f] = "missing" /\ rq[f].kind # "head"
          /\ Broken(f)
    /\ UNCHANGED <<site, env>>

\* fetch: the pause is over, the next round begins.
NextRound(f) ==
    /\ rq[f].at = "pause"
    /\ rq' = Restart(f, 0)
    /\ UNCHANGED <<site, cooling, env>>

(***************************************************************************)
(* The body: a short one is read once, a long one is asked for again.      *)
(***************************************************************************)
BodyRead(f) ==
    /\ rq[f].at = "body" /\ env["link"] = "up"
    /\ rq' = [rq EXCEPT ![f].at = "ok"]
    /\ UNCHANGED <<site, cooling, env>>

BodyStalls(f) ==
    /\ rq[f].at = "body"
    /\ Broken(f)
    /\ UNCHANGED <<site, env>>

FetchStep(f) ==
    \/ NoAnswer(f) \/ Busy(f) \/ Answer(f) \/ NextRound(f)
    \/ BodyRead(f) \/ BodyStalls(f)

HttpNext ==
    \/ EnvChanges
    \/ \E f \in Fetches : FetchStep(f) \/ CooldownEnds(f)

\* A thread goes on; a cooldown ends; and what can be reached again and again, at
\* some host and hop, gives its own answer in the end.
HttpFair ==
    \A f \in Fetches :
        /\ WF_httpVars(FetchStep(f))
        /\ WF_httpVars(CooldownEnds(f))
        /\ \A h \in Listed, n \in 0..MaxRedirects :
               SF_httpVars(rq[f].host = h /\ rq[f].hop = n /\ Answer(f))

HttpSpec == HttpInit /\ [][HttpNext]_httpVars /\ HttpFair

Ends(f) == rq[f].at \in Ended
Leads(f) == site[f] \in {"serves", "moved", "renamed", "missing"}
Revisits(f) == site[f] = "renamed"

\* A request whose redirects stay on the list ends once the link stays up, were
\* the proxy and the system resolver gone for good and servers busy for long:
\* fetch retries without end, and some retry gets past the dead proxy and past
\* its own resolver's cooldown (httpclient.rs:430-437, resolver.rs:128-149).
\* One that is led back to a host it has been to needs the system resolver, for
\* the second hop of every attempt falls into the cooldown of the first.
FetchEnds ==
    \A f \in Fetches :
        /\ Leads(f) /\ <>[](env["link"] = "up")
        /\ Revisits(f) => <>[](env["dns"] = "up")
        => <>Ends(f)

=============================================================================
