---------------------------- MODULE MCConnected ----------------------------
(***************************************************************************)
(* The two ends of the realtime connection, and the plugins' requests to   *)
(* services, which share nothing here and are checked side by side, in     *)
(* behaviours of one of them.                                              *)
(*                                                                         *)
(* The hub and its device lists, as MCRealtime has them.                   *)
(* A device's copy of the queue: one queue of the account's, one this      *)
(* device may start and one another may; edits of both, one of which takes *)
(* what another edit needs, and changes of the repeat mode.                *)
(* The requests of two plugins: one limits a host for every plugin, the    *)
(* other changes what is there for a user, and redirects lead elsewhere.   *)
(***************************************************************************)
EXTENDS MCRealtime, Network, ClientQueue

CONSTANTS none, first, older, chosen, elsewhere, past, add, repeatAll, remove, again,
          limiting, changing, service, redirected

VARIABLE part

MCBars == {<<remove, add>>}

MCRun == {1, 2}

MCPlugin == <<limiting, changing>>

MCUser == <<0, 7>>

MCVisible == <<1, 2>>

MCHost == {service, redirected}

MCAsked == {service}

MCDeclares == [p \in {limiting, changing} |-> [h \in MCHost |->
    IF h = redirected THEN [gap |-> 0, per |-> "plugin"]
    ELSE IF p = limiting THEN [gap |-> 1, per |-> "host"]
    ELSE [gap |-> 2, per |-> "user"]]]

MCMayLimit == {limiting}

MCExempt == [h \in MCHost |-> {}]

MCChanging == {2}

MCLife == {0, 1}

MCPause == {2}

SumInit ==
    /\ part \in {"hub", "client", "network"} /\ Init /\ QueueInit /\ NetworkInit
    /\ part # "client" => server.saved.active = first

SumNext ==
    \/ part = "hub" /\ Next /\ UNCHANGED <<part, clientVars, networkVars>>
    \/ part = "client" /\ QueueNext /\ UNCHANGED <<part, vars, networkVars>>
    \/ part = "network" /\ NetworkNext /\ UNCHANGED <<part, vars, clientVars>>

SumSpec == SumInit /\ [][SumNext]_<<part, vars, clientVars, networkVars>>

=============================================================================
