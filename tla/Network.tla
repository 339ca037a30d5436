------------------------------- MODULE Network -------------------------------
(***************************************************************************)
(* What plugins' requests share (plugins/src/network.rs): how often each   *)
(* host is asked (network/limits.rs), and the replies kept for reuse       *)
(* (network/cache.rs), as host/http.rs uses them, with the limits an       *)
(* admin's plugins put on a host (server/src/plugins/rate_limits.rs).      *)
(*                                                                         *)
(* Time is counted in steps.  A host has one URL, whose content is a       *)
(* version that changes count up; what a request says besides its method   *)
(* is left out, as are what a plugin may reach and the sizes of replies.   *)
(***************************************************************************)
EXTENDS Integers, FiniteSetsExt

CONSTANTS
    Run,         \* the runs of plugins there may be
    Plugin,      \* the plugin of each
    User,        \* whom it runs for, or 0
    Visible,     \* what it may see
    Host, Asked, \* the hosts, and those asked; the others are where redirects lead
    Declares,    \* the limit each plugin's manifest declares for each host: [gap, per]
    MayLimit,    \* the plugins granted hostRateLimits
    Exempt,      \* the plugins exempt from each host's limit
    Changing,    \* the runs that send changes, and no GET
    MaxWait, MaxPause,   \* MAX_WAIT, MAX_PAUSE; BASE_PAUSE is a step
    Life,        \* how long a reply may say it is fresh
    Pause,       \* what a Retry-After may ask
    Kept,        \* how many replies fit in the cache
    MaxTime, MaxRequests  \* bounds: the clock, and requests sent

\* A limit's gap is its period shared among its count (manifest/rate_limit.rs).
ASSUME NetworkAssumptions ==
    /\ Asked \subseteq Host /\ IsFiniteSet(MayLimit)
    /\ \A r \in Run : Plugin[r] \in DOMAIN Declares
    /\ MayLimit \subseteq DOMAIN Declares
    /\ \A p \in DOMAIN Declares, h \in Host : Declares[p][h].gap \in Nat
    /\ MaxPause \in Nat /\ Life \subseteq Nat

VARIABLES
    now,
    enabled,     \* the plugins that set limits and are enabled
    grants,      \* the host limits each run read as it started; by host, none if not there
    requests,    \* each run's request under way
    queues,      \* Limits: by host and scope
    cache,       \* Cache.inner: the replies kept, each with the keys used since it was
    content,     \* each host's version
    turns,       \* history: every turn taken
    held,        \* history: until when each scope was last paused
    outdated,   \* history: by host, the version the last change answered made, if any
    sent

limits == <<queues, turns, held>>
networkVars == <<now, enabled, grants, requests, limits, cache, content, outdated, sent>>

\* What a reply is kept for: what its run may see, and the URL it asked.
Key == {Visible[r] : r \in Run} \X Asked

Scope == {<<"host">>} \cup {<<"plugin", Plugin[r]>> : r \in Run}
            \cup {<<"user", Plugin[r], User[r]>> : r \in Run}

Unkept == [next |-> 0, throttled |-> 0]

NoRequest == [step |-> "none"]

NetworkInit ==
    /\ now = 0 /\ enabled = {} /\ sent = 0
    /\ grants = [r \in Run |-> <<>>]
    /\ requests = [r \in Run |-> NoRequest]
    /\ queues = [q \in Host \X Scope |-> Unkept]
    /\ cache = {} /\ content = [h \in Host |-> 1]
    /\ turns = {} /\ held = [q \in Host \X Scope |-> 0] /\ outdated = [h \in Host |-> 0]

-----------------------------------------------------------------------------
(***************************************************************************)
(* The limits in force, which a run reads as it starts.                    *)
(***************************************************************************)
\* rate_limits::in_force: of several for a host, the strictest.
Gaps(h) == {Declares[p][h].gap : p \in {q \in enabled \cap MayLimit : Declares[q][h].per = "host"}}

\* rate_limits::for_run.
Binding(r) == {h \in Host : Gaps(h) # {} /\ Plugin[r] \notin Exempt[h]}

Starts(r) ==
    /\ requests[r].step = "none"
    /\ grants' = [grants EXCEPT ![r] = [h \in Binding(r) |-> Max(Gaps(h))]]
    /\ UNCHANGED <<now, enabled, requests, limits, cache, content, outdated, sent>>

Enables(p) ==
    /\ enabled' = (enabled \ {p}) \cup ({p} \ enabled)
    /\ UNCHANGED <<now, grants, requests, limits, cache, content, outdated, sent>>

-----------------------------------------------------------------------------
(***************************************************************************)
(* Turns.                                                                  *)
(***************************************************************************)
Bound(r, h) == h \in DOMAIN grants[r]

\* Run::own: whose requests this one counts among, and the gap kept there.
OwnQueue(r, h) ==
    LET declared == Declares[Plugin[r]][h]
        mine == [scope |-> <<"plugin", Plugin[r]>>, gap |-> declared.gap]
    IN  CASE declared.per = "host" /\ Bound(r, h) /\ Plugin[r] \in MayLimit ->
                [scope |-> <<"host">>, gap |-> Max({declared.gap, grants[r][h]})]
          [] declared.per = "user" /\ User[r] # 0 ->
                [scope |-> <<"user", Plugin[r], User[r]>>, gap |-> declared.gap]
          [] OTHER -> mine

\* Run::queues: its own scope's, and the host's if a limit there binds the plugin.
Queues(r, h) ==
    {OwnQueue(r, h)} \cup (IF Bound(r, h) /\ OwnQueue(r, h).scope # <<"host">>
                      THEN {[scope |-> <<"host">>, gap |-> grants[r][h]]} ELSE {})

IsIdle(queue, at) ==
    queue.next <= at /\ (queue.throttled = 0 \/ queue.next + MaxPause <= at)

KeepUnlessIdle(queue) == IF IsIdle(queue, now) THEN Unkept ELSE queue

\* Slip: a request goes at its own scope's turn, whatever the host's.
SlipTurnOf(r, h) == Max({now, queues[<<h, OwnQueue(r, h).scope>>].next})

TurnOf(r, h) == Max({now} \cup {queues[<<h, q.scope>>].next : q \in Queues(r, h)})

NextTurn(start, gap) == start + gap

\* Limits::turn: taken in each queue, from when it goes; none if it is too far away.
TakesTurn(r, h) ==
    LET start == TurnOf(r, h)
        mine(q) == {p \in Queues(r, h) : <<h, p.scope>> = q}
    IN  /\ start <= now + MaxWait
        /\ queues' = [q \in Host \X Scope |->
                        IF mine(q) = {} THEN queues[q]
                        ELSE KeepUnlessIdle([queues[q] EXCEPT !.next =
                                NextTurn(start, (CHOOSE p \in mine(q) : TRUE).gap)])]
        /\ turns' = turns \cup {[id |-> sent, queue |-> <<h, q.scope>>, at |-> start, gap |-> q.gap] :
                                q \in Queues(r, h)}
        /\ UNCHANGED held

\* How long a 429 or 503 pauses: as Retry-After asks, or at random within a reach that doubles.
Pauses(wait, throttled) ==
    IF wait # 0 THEN {Min({wait, MaxPause})} ELSE 0 .. Min({2 ^ throttled, MaxPause})

\* Limits::answered, in the queues of qs.
Ends(qs) ==
    queues' = [q \in Host \X Scope |->
                IF q \in qs THEN KeepUnlessIdle([queues[q] EXCEPT !.throttled = 0]) ELSE queues[q]]

Throttles(qs, wait, pause) ==
    LET swept(q) == KeepUnlessIdle(queues[q])
    IN  /\ \A q \in qs : pause[q[1]] \in Pauses(wait, swept(q).throttled)
        /\ queues' = [q \in Host \X Scope |->
                IF q \in qs
                THEN [next |-> Max({swept(q).next, now + pause[q[1]]}),
                      throttled |-> swept(q).throttled + 1]
                ELSE swept(q)]

-----------------------------------------------------------------------------
(***************************************************************************)
(* The cache.                                                              *)
(***************************************************************************)
EntryOf(key) == {e \in cache : e.key = key}

\* The order of use is that of the entries there are.
InOrder(entries) == {[e EXCEPT !.since = @ \cap {o.key : o \in entries}] : e \in entries}

Besides(key) == InOrder(cache \ EntryOf(key))

\* Inner::touch.
Used(entry) ==
    {[e EXCEPT !.since = @ \cup {entry.key}] : e \in Besides(entry.key)}
        \cup {[entry EXCEPT !.since = {}]}

LeastUsed(entries) == {e \in entries : \A o \in entries : o = e \/ o.key \in e.since}

\* Cache::store: kept if it says it may be, for as long as it says, and the least used goes.
Stored(key, version, life, checks) ==
    LET kept == Used([key |-> key, version |-> version, until |-> now + life, checks |-> checks,
                      kept |-> outdated[key[2]], since |-> {}])
    IN  IF life = 0 /\ ~checks THEN Besides(key)
        ELSE IF Cardinality(kept) > Kept THEN InOrder(kept \ LeastUsed(kept)) ELSE kept

\* Slip: only what the run itself sees is outdated.
SlipForgets(r, h) == Besides(<<Visible[r], h>>)

\* Cache::invalidate: whoever fetched it.
Forgets(r, h) == InOrder({e \in cache : e.key[2] # h})

-----------------------------------------------------------------------------
(***************************************************************************)
(* A request: http::Host::send.                                            *)
(***************************************************************************)
\* The cache answers: nothing else happens, but that the reply was used.
Reuses(r, h) ==
    /\ requests[r].step = "none" /\ r \notin Changing
    /\ \E e \in EntryOf(<<Visible[r], h>>) :
        /\ now < e.until
        /\ cache' = Used(e)
    /\ UNCHANGED <<now, enabled, grants, requests, limits, content, outdated, sent>>

\* It is asked for, and waits for its turn, or is refused. A stale reply is checked.
Asks(r, h) ==
    LET key   == <<Visible[r], h>>
        found == IF r \in Changing THEN {} ELSE EntryOf(key)
        stale == {e \in found : e.checks}
    IN  /\ requests[r].step = "none" /\ sent < MaxRequests
        /\ \A e \in found : e.until <= now
        /\ cache' = IF found = {} THEN cache
                    ELSE IF stale = {} THEN Besides(key)
                    ELSE Used(CHOOSE e \in stale : TRUE)
        /\ \/ /\ TakesTurn(r, h)
              /\ requests' = [requests EXCEPT ![r] =
                    [step |-> "waiting", host |-> h, at |-> TurnOf(r, h),
                     stale |-> {e.version : e \in stale}]]
           \/ TurnOf(r, h) > now + MaxWait /\ UNCHANGED <<requests, limits>>
        /\ sent' = sent + 1
    /\ UNCHANGED <<now, enabled, grants, content, outdated>>

\* Its turn has come.
Sends(r) ==
    /\ requests[r].step = "waiting" /\ requests[r].at <= now
    /\ requests' = [requests EXCEPT ![r].step = "sent"]
    /\ UNCHANGED <<now, enabled, grants, limits, cache, content, outdated, sent>>

\* The service answers, perhaps where a redirect led: with its content, that it has not
\* changed, a throttle or a failure. A change is made at the URL it was sent to.
Serves(r) ==
    LET h == requests[r].host
    IN  /\ requests[r].step = "sent"
        /\ \E status \in {"ok", "same", "throttled", "failed"}, led \in {h} \cup (Host \ Asked) :
            /\ status = "same" => content[h] \in requests[r].stale
            /\ content' = IF r \in Changing /\ status = "ok" THEN [content EXCEPT ![h] = @ + 1]
                          ELSE content
            /\ requests' = [requests EXCEPT ![r] =
                [step |-> "served", host |-> h, stale |-> @.stale, status |-> status,
                 led |-> led, version |-> content'[h]]]
        /\ UNCHANGED <<now, enabled, grants, limits, cache, outdated, sent>>

\* What came back is too late, or nothing did.
NoReply(r) ==
    /\ requests[r].step \in {"sent", "served"}
    /\ requests' = [requests EXCEPT ![r] = NoRequest]
    /\ UNCHANGED <<now, enabled, grants, limits, cache, content, outdated, sent>>

\* Slip: a throttle after a redirect is one where it led alone.
SlipThrottledAt(reply) == {reply.led}

\* After a redirect, a throttle is one where the request started too.
ThrottledAt(reply) == {reply.led, reply.host}

Paused(r, reply) ==
    IF reply.status # "throttled"
    THEN Ends({<<reply.led, OwnQueue(r, reply.led).scope>>}) /\ UNCHANGED held
    ELSE \E wait \in Pause \cup {0}, pause \in [{reply.led, reply.host} -> 0 .. MaxPause] :
            /\ Throttles({<<h, OwnQueue(r, h).scope>> : h \in ThrottledAt(reply)}, wait, pause)
            /\ held' = [q \in Host \X Scope |->
                    IF q[1] \in DOMAIN pause /\ q[2] = OwnQueue(r, q[1]).scope
                    THEN Max({held[q], now + pause[q[1]]}) ELSE held[q]]

Replies(r) ==
    LET reply == requests[r]
        key   == <<Visible[r], reply.host>>
    IN  /\ reply.step = "served"
        /\ requests' = [requests EXCEPT ![r] = NoRequest]
        /\ Paused(r, reply)
        /\ IF r \in Changing /\ reply.status = "ok"
           THEN /\ cache' = Forgets(r, reply.host)
                /\ outdated' = [outdated EXCEPT ![reply.host] = Max({@, reply.version})]
           ELSE /\ UNCHANGED outdated
                /\ \/ (r \in Changing \/ reply.status \in {"throttled", "failed"}) /\ UNCHANGED cache
                   \/ /\ r \notin Changing /\ reply.status \in {"ok", "same"}
                      /\ \E life \in Life, checks \in BOOLEAN :
                            cache' = Stored(key, reply.version, life, checks)
        /\ UNCHANGED <<now, enabled, grants, turns, content, sent>>

Tick ==
    /\ now < MaxTime /\ now' = now + 1
    /\ UNCHANGED <<enabled, grants, requests, limits, cache, content, outdated, sent>>

NetworkNext ==
    \/ \E r \in Run : Starts(r) \/ Sends(r) \/ Serves(r) \/ NoReply(r) \/ Replies(r)
    \/ \E r \in Run, h \in Asked : Reuses(r, h) \/ Asks(r, h)
    \/ \E p \in MayLimit : Enables(p)
    \/ Tick

NetworkSpec == NetworkInit /\ [][NetworkNext]_networkVars

-----------------------------------------------------------------------------
(* Of two requests that count in one scope at a host, the later goes at    *)
(* least the earlier's gap after it, though each waits in queues of its    *)
(* own, limits come and go, and queues are outdated (Limits::turn).       *)
EachKeepsItsGap ==
    \A a, b \in turns : a.queue = b.queue /\ a # b /\ a.at <= b.at /\ (a.at = b.at => a.id < b.id) =>
        b.at >= a.at + a.gap

(* A service that says to wait is not asked again in that scope before it  *)
(* said, at the host that answered nor where a redirect set out, but for   *)
(* requests whose turn was taken before (Limits::answered, send).          *)
APauseIsKept ==
    [][\A t \in turns' \ turns : t.at >= held[t.queue]]_networkVars

(* A reply older than a change that was answered is kept only if it was    *)
(* fetched while the change was under way and came after it, whoever made  *)
(* the change and fetched the reply (Cache::invalidate).                   *)
WhatAChangeOutdatesIsForgotten ==
    \A e \in cache : e.version < outdated[e.key[2]] => e.kept = outdated[e.key[2]]
=============================================================================
