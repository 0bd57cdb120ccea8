------------------------------- MODULE Identity --------------------------------
(***************************************************************************)
(* Whom a device's events are about.  Threads of the host identify, set    *)
(* traits, reset and track; the identity is a row of the store, changed    *)
(* and read in transactions, while the standard context is in the          *)
(* process's memory and is read before a transaction begins.               *)
(***************************************************************************)
EXTENDS Integers, FiniteSets, FiniteSetsExt, Sequences

CONSTANTS
  Threads,       \* of the host
  ExternalIds,   \* whom the host identifies, valid or not
  TraitKeys,
  Changes,       \* what the host sets traits to: values by key, Removed among them
  HostContexts,  \* standard contexts
  MaxEffects, MaxTracked, MaxDeaths     \* bounds

ASSUME IdentityAssumption == \A change \in Changes : DOMAIN change \subseteq TraitKeys

Everyone == "*"
Invalid == "invalid"     \* too long, empty, or with control characters
Removed == "null"
NoContext == "none"
NoCall == [kind |-> "none"]

VARIABLES
  identity,      \* the row: [externalId, traits]
  context,       \* the standard context, in memory
  calls,         \* per thread: the call it is in
  tracked,       \* the events that were stored, in order
  effects,     \* history: what took effect, in order
  deaths         \* counted for the bound

identityVars == <<identity, context, calls, tracked, effects, deaths>>

NoTraits == [k \in {} |-> Removed]
Anonymous == [externalId |-> Everyone, traits |-> NoTraits]

IdentityInit ==
  /\ identity = Anonymous /\ context = NoContext
  /\ calls = [t \in Threads |-> NoCall]
  /\ tracked = << >> /\ effects = << >> /\ deaths = 0

-----------------------------------------------------------------------------
\* A change replaces a trait whole and null removes it.
Merged(traits, changes) ==
  LET kept == {k \in DOMAIN traits \union DOMAIN changes :
                 k \in DOMAIN changes => changes[k] # Removed}
  IN [k \in kept |-> IF k \in DOMAIN changes THEN changes[k] ELSE traits[k]]

\* Mutant: the traits outlive the actor.
AnonymousWithTraits(who) == [Anonymous EXCEPT !.traits = who.traits]

ForgottenActor(who) == Anonymous

\* What a call makes of the identity.
Changed(who, call) ==
  CASE call.kind = "identify" -> [who EXCEPT !.externalId = call.externalId]
    [] call.kind = "traits"   -> [who EXCEPT !.traits = Merged(@, call.changes)]
    [] call.kind = "reset"    -> ForgottenActor(who)
    [] OTHER                  -> who

CallsFor ==
  [kind : {"identify"}, externalId : ExternalIds] \union [kind : {"traits"}, changes : Changes]
    \union {[kind |-> "reset"]}

Begin(t, call) ==
  /\ calls[t] = NoCall
  /\ calls' = [calls EXCEPT ![t] = call]
  /\ UNCHANGED <<identity, context, tracked, effects, deaths>>

\* An event's call begins with a copy of the context.
BeginTrack(t) ==
  /\ calls[t] = NoCall /\ Len(tracked) < MaxTracked
  /\ calls' = [calls EXCEPT ![t] = [kind |-> "track", context |-> context,
                                    begun |-> Len(effects)]]
  /\ UNCHANGED <<identity, context, tracked, effects, deaths>>

\* set_context only touches the memory.
SetContext(host) ==
  /\ host # context /\ Len(effects) < MaxEffects
  /\ context' = host
  /\ effects' = Append(effects, [kind |-> "context", context |-> host])
  /\ UNCHANGED <<identity, calls, tracked, deaths>>

Acceptable(call) == call.kind = "identify" => call.externalId # Invalid

\* One IMMEDIATE transaction reads the identity and writes it.
Commit(t) ==
  /\ calls[t].kind \in {"identify", "traits", "reset"} /\ Acceptable(calls[t])
  /\ Len(effects) < MaxEffects
  /\ identity' = Changed(identity, calls[t])
  /\ effects' = Append(effects, calls[t])
  /\ calls' = [calls EXCEPT ![t] = NoCall]
  /\ UNCHANGED <<context, tracked, deaths>>

\* The traits are added to an event's context when there are any.
WithTraits(standard, traits) ==
  [standard |-> standard, traits |-> traits]

\* The event is of the actor the transaction finds.
RecordEvent(t) ==
  /\ calls[t].kind = "track" /\ Len(tracked) < MaxTracked
  /\ tracked' = Append(tracked,
       [externalId |-> identity.externalId,
        context |-> WithTraits(calls[t].context, identity.traits),
        begun |-> calls[t].begun, ended |-> Len(effects)])
  /\ calls' = [calls EXCEPT ![t] = NoCall]
  /\ UNCHANGED <<identity, context, effects, deaths>>

\* The transaction is rolled back, or the external id is refused.
CallFails(t) ==
  /\ calls[t] # NoCall
  /\ calls' = [calls EXCEPT ![t] = NoCall]
  /\ UNCHANGED <<identity, context, tracked, effects, deaths>>

\* The process dies: the row stays, the context and the calls do not.
ProcessDies ==
  /\ deaths < MaxDeaths /\ Len(effects) < MaxEffects
  /\ deaths' = deaths + 1
  /\ context' = NoContext
  /\ effects' = Append(effects, [kind |-> "context", context |-> NoContext])
  /\ calls' = [t \in Threads |-> NoCall]
  /\ UNCHANGED <<identity, tracked>>

IdentityNext ==
  \/ \E t \in Threads :
       BeginTrack(t) \/ Commit(t) \/ RecordEvent(t) \/ CallFails(t) \/ \E call \in CallsFor : Begin(t, call)
  \/ \E host \in HostContexts : SetContext(host)
  \/ ProcessDies

IdentitySpec == IdentityInit /\ [][IdentityNext]_identityVars

-----------------------------------------------------------------------------
(* Properties.                                                             *)

\* The last of some effects, or 0.
LastOf(places) == IF places = {} THEN 0 ELSE Max(places)

ResetBefore(n) == LastOf({i \in 1 .. n : effects[i].kind = "reset"})

ActorAfter(n) ==
  LET i == LastOf({j \in 1 .. n : effects[j].kind = "identify"})
  IN IF i <= ResetBefore(n) THEN Everyone ELSE effects[i].externalId

\* The value a trait was set to last since the last reset, or Removed.
Sets(effect, key) == effect.kind = "traits" /\ key \in DOMAIN effect.changes

TraitAfter(n, key) ==
  LET i == LastOf({j \in 1 .. n : Sets(effects[j], key)})
  IN IF i <= ResetBefore(n) THEN Removed ELSE effects[i].changes[key]

ContextAfter(n) ==
  LET i == LastOf({j \in 1 .. n : effects[j].kind = "context"})
  IN IF i = 0 THEN NoContext ELSE effects[i].context

CarriesTraits(traits, n) ==
  \A key \in TraitKeys :
    TraitAfter(n, key) = IF key \in DOMAIN traits THEN traits[key] ELSE Removed

\* An event carries one actor with the traits set since that actor's last
\* reset, as they stood together at a moment of its call, and a standard
\* context of that call: never the traits of one user under the id of another
\* who came after a reset, whatever other threads do, transactions that fail
\* and restarts included.
EventsCarryTheirActor ==
  \A e \in {tracked[i] : i \in DOMAIN tracked} :
    /\ \E n \in e.begun .. e.ended :
         e.externalId = ActorAfter(n) /\ CarriesTraits(e.context.traits, n)
    /\ \E n \in e.begun .. e.ended : e.context.standard = ContextAfter(n)

=============================================================================
