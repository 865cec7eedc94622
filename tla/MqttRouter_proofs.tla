--------------------------- MODULE MqttRouter_proofs ---------------------------
(***************************************************************************)
(* Proof that RouterService::call keeps its alias table in step with the  *)
(* client's for every alias last set on a topic some resource recognizes: *)
(* AliasFollowsRoutedClient holds for every set of topics, aliases,        *)
(* resources and every routing.                                            *)
(***************************************************************************)
EXTENDS MqttRouter, TLAPS

TypeOK ==
  /\ DOMAIN aliases \subseteq Aliases
  /\ DOMAIN client \subseteq Aliases
  /\ last \in [service : Services, topic : Topics \cup {Empty}, req : Requests]
  /\ \A a \in DOMAIN client : client[a] \in Topics
  /\ \A a \in DOMAIN aliases : aliases[a] \in [idx : Handlers, topic : Topics]

\* every alias the client last set on a routed topic is cached with that
\* topic and the index of the resource that recognizes it
Cached ==
  \A a \in DOMAIN client :
    Route[client[a]] # NoRoute =>
      /\ a \in DOMAIN aliases
      /\ aliases[a] = [idx |-> Route[client[a]], topic |-> client[a]]

IInv == TypeOK /\ Cached /\ AliasFollowsRoutedClient

LEMMA InitIInv == Init => IInv
BY RouterAssumptions DEF Init, IInv, TypeOK, Cached, AliasFollowsRoutedClient,
                         NoCall, Services, Requests

\* a publish with a topic a resource recognizes
LEMMA RoutedIInv ==
  ASSUME IInv, NEW req \in Requests, req.topic # Empty, Route[req.topic] # NoRoute,
         aliases' = IF req.alias = NoAlias THEN aliases
                    ELSE Insert(aliases, req.alias,
                                [idx |-> Route[req.topic], topic |-> req.topic]),
         last' = [service |-> Route[req.topic], topic |-> req.topic, req |-> req],
         client' = IF req.topic # Empty /\ req.alias # NoAlias
                   THEN ClientSets(client, req.alias, req.topic) ELSE client
  PROVE  IInv'
<1>1. req.topic \in Topics /\ Route[req.topic] \in Handlers
  BY RouterAssumptions DEF Requests
<1>2. TypeOK'
  BY <1>1 DEF IInv, TypeOK, Insert, ClientSets, Services, Requests
<1>3. Cached'
  BY <1>1 DEF IInv, TypeOK, Cached, Insert, ClientSets
<1>4. AliasFollowsRoutedClient'
  BY DEF AliasFollowsRoutedClient
<1>5. QED
  BY <1>2, <1>3, <1>4 DEF IInv

\* a publish with a topic no resource recognizes
LEMMA UnroutedIInv ==
  ASSUME IInv, NEW req \in Requests, req.topic # Empty, Route[req.topic] = NoRoute,
         last' = [service |-> Default, topic |-> req.topic, req |-> req],
         UNCHANGED aliases,
         client' = IF req.topic # Empty /\ req.alias # NoAlias
                   THEN ClientSets(client, req.alias, req.topic) ELSE client
  PROVE  IInv'
<1>1. req.topic \in Topics
  BY DEF Requests
<1>2. TypeOK'
  BY <1>1 DEF IInv, TypeOK, ClientSets, Services, Requests
<1>3. Cached'
  BY <1>1 DEF IInv, TypeOK, Cached, ClientSets
<1>4. AliasFollowsRoutedClient'
  BY DEF AliasFollowsRoutedClient
<1>5. QED
  BY <1>2, <1>3, <1>4 DEF IInv

\* an alias-only publish
LEMMA AliasOnlyIInv ==
  ASSUME IInv, NEW req \in Requests, req.topic = Empty,
         \/ /\ req.alias \in DOMAIN aliases
            /\ last' = [service |-> aliases[req.alias].idx,
                        topic |-> aliases[req.alias].topic, req |-> req]
         \/ /\ req.alias \notin DOMAIN aliases
            /\ last' = [service |-> Default, topic |-> Empty, req |-> req],
         UNCHANGED <<aliases, client>>
  PROVE  IInv'
<1>1. TypeOK'
  BY DEF IInv, TypeOK, Services, Requests
<1>2. Cached'
  BY DEF IInv, Cached
<1>3. AliasFollowsRoutedClient'
  <2>1. SUFFICES ASSUME req.alias \in DOMAIN client, Route[client[req.alias]] # NoRoute
                 PROVE  /\ last'.topic = client'[last'.req.alias]
                        /\ last'.service = Route[client'[last'.req.alias]]
    BY DEF AliasFollowsRoutedClient
  <2>2. req.alias \in DOMAIN aliases
        /\ aliases[req.alias] = [idx |-> Route[client[req.alias]], topic |-> client[req.alias]]
    BY <2>1 DEF IInv, Cached
  <2>3. QED
    BY <2>2
<1>4. QED
  BY <1>1, <1>2, <1>3 DEF IInv

LEMMA NextIInv == IInv /\ [Next]_vars => IInv'
<1> SUFFICES ASSUME IInv, [Next]_vars PROVE IInv'
  OBVIOUS
<1>1. CASE UNCHANGED vars
  BY <1>1 DEF IInv, TypeOK, Cached, AliasFollowsRoutedClient, vars
<1>2. ASSUME NEW req \in Requests, Call(req) PROVE IInv'
  <2>1. CASE req.topic # Empty /\ Route[req.topic] # NoRoute
    BY <1>2, <2>1, RoutedIInv DEF Call
  <2>2. CASE req.topic # Empty /\ Route[req.topic] = NoRoute
    BY <1>2, <2>2, UnroutedIInv DEF Call
  <2>3. CASE req.topic = Empty
    BY <1>2, <2>3, AliasOnlyIInv DEF Call
  <2>4. QED
    BY <2>1, <2>2, <2>3
<1>3. QED
  BY <1>1, <1>2 DEF Next

(* For every routing of topics to resources, the strengthening IInv holds *)
(* in every state RouterService::call reaches.                            *)
THEOREM RouterInvariant == Spec => []IInv
BY InitIInv, NextIInv, PTL DEF Spec

(* An alias-only publish whose alias the client last set on a routed      *)
(* topic reaches that topic's resource with that topic, whatever the      *)
(* sequence of publishes before it (RouterService::call's alias table).   *)
THEOREM AliasFollowsRoutedClientHolds == Spec => []AliasFollowsRoutedClient
BY RouterInvariant, PTL DEF IInv
=============================================================================
