------------------------------- MODULE MqttRouter -------------------------------
(***************************************************************************)
(* The MQTT v5 publish router of src/v5/router.rs: RouterService::call and *)
(* its topic-alias table, driven by a client that publishes with a topic, *)
(* with a topic and an alias, or with an alias alone.                      *)
(*                                                                         *)
(* ntex's path router is abstracted to its answer: Route[t] is the index   *)
(* of the first resource whose pattern recognizes topic t, or NoRoute.     *)
(* The client's own alias table, kept by MQTT 5 section 3.3.2.3.4 (a       *)
(* PUBLISH with a topic and an alias sets the alias to that topic), is a  *)
(* ghost variable the properties compare the router with.                  *)
(***************************************************************************)
EXTENDS Naturals

CONSTANTS
  Topics,     \* the non-empty topic names the client uses
  Aliases,    \* the topic alias values it uses
  Handlers,   \* the indexes of the configured resources
  Route,      \* topic -> index of the first resource that recognizes it
  NoRoute,    \* no resource recognizes the topic
  NoAlias,    \* the publish carries no topic_alias property
  Empty,      \* the empty topic of an alias-only publish
  Default,    \* the default service
  MaxCalls    \* how many publishes a behaviour makes

ASSUME RouterAssumptions ==
  /\ Route \in [Topics -> Handlers \cup {NoRoute}]
  /\ NoRoute \notin Handlers /\ Default \notin Handlers
  /\ NoAlias \notin Aliases /\ Empty \notin Topics
  /\ MaxCalls \in Nat

Services == Handlers \cup {Default}
Requests == [topic : Topics \cup {Empty}, alias : Aliases \cup {NoAlias}]
NoCall   == [service |-> Default, topic |-> Empty,
             req |-> [topic |-> Empty, alias |-> NoAlias]]

VARIABLES
  aliases,  \* RouterService.aliases: alias -> [idx, topic]
  client,   \* the client's alias table: alias -> topic (ghost)
  last,     \* the last publish, the service it reached and the topic it carried
  calls     \* how many publishes were routed

vars == <<aliases, client, last, calls>>

-----------------------------------------------------------------------------
\* aliases.borrow_mut().insert(alias, (idx, topic)); a mutant never replaces
\* an alias that is already set
InsertKeepOld(tbl, a, v) ==
  [x \in DOMAIN tbl \cup {a} |-> IF x \in DOMAIN tbl THEN tbl[x] ELSE v]
Insert(tbl, a, v) == [x \in DOMAIN tbl \cup {a} |-> IF x = a THEN v ELSE tbl[x]]

\* MQTT 5 3.3.2.3.4: the client's PUBLISH with topic t and alias a sets a to t
ClientSets(tbl, a, t) == [x \in DOMAIN tbl \cup {a} |-> IF x = a THEN t ELSE tbl[x]]

(* RouterService::call(req).                                               *)
Call(req) ==
  /\ calls < MaxCalls
  /\ \/ /\ req.topic # Empty /\ Route[req.topic] # NoRoute  \* recognized
        /\ aliases' = IF req.alias = NoAlias THEN aliases
                      ELSE Insert(aliases, req.alias,
                                  [idx |-> Route[req.topic], topic |-> req.topic])
        /\ last' = [service |-> Route[req.topic], topic |-> req.topic, req |-> req]
     \/ /\ req.topic # Empty /\ Route[req.topic] = NoRoute  \* no resource
        /\ last' = [service |-> Default, topic |-> req.topic, req |-> req]
        /\ UNCHANGED aliases
     \/ /\ req.topic = Empty /\ req.alias \in DOMAIN aliases  \* known alias
        /\ last' = [service |-> aliases[req.alias].idx,
                    topic |-> aliases[req.alias].topic, req |-> req]
        /\ UNCHANGED aliases
     \/ /\ req.topic = Empty /\ req.alias \notin DOMAIN aliases  \* unknown alias
        /\ last' = [service |-> Default, topic |-> Empty, req |-> req]
        /\ UNCHANGED aliases
  /\ client' = IF req.topic # Empty /\ req.alias # NoAlias
               THEN ClientSets(client, req.alias, req.topic) ELSE client
  /\ calls' = calls + 1

(* RouterFactoryFut::poll ends with an empty alias table.                  *)
Init ==
  /\ aliases = <<>>
  /\ client = <<>>
  /\ last = NoCall
  /\ calls = 0

Next == \E req \in Requests : Call(req)

Spec == Init /\ [][Next]_vars

-----------------------------------------------------------------------------
(* Properties.                                                             *)

\* the service a publish on topic t reaches
ServiceFor(t) == IF Route[t] = NoRoute THEN Default ELSE Route[t]

(* An alias-only publish whose alias the client last set to a topic some *)
(* resource recognizes reaches that resource with that topic: re-assigning *)
(* an alias from one routed topic to another is never missed.             *)
AliasFollowsRoutedClient ==
  LET r == last.req
  IN  r.topic = Empty /\ r.alias \in DOMAIN client /\ Route[client[r.alias]] # NoRoute =>
        /\ last.topic = client[r.alias]
        /\ last.service = Route[client[r.alias]]

(* An alias-only publish reaches the service the client's topic for that  *)
(* alias routes to, and that service sees the client's topic: the alias   *)
(* table RouterService::call keeps agrees with the one MQTT 5 has the     *)
(* client keep, however topics, aliases and re-assignments interleave.     *)
AliasFollowsClient ==
  LET r == last.req
  IN  r.topic = Empty /\ r.alias \in DOMAIN client =>
        /\ last.topic = client[r.alias]
        /\ last.service = ServiceFor(client[r.alias])

=============================================================================
