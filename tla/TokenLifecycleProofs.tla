------------------------ MODULE TokenLifecycleProofs ------------------------
(***************************************************************************)
(* The token lifecycle, for any number of calls, of deployments and of     *)
(* tokens.                                                                 *)
(***************************************************************************)
EXTENDS TokenLifecycle, TLAPS

(* A call between the storage and the tool has no login of its own.        *)
NoLoginBesides ==
  \A r \in Requests : pc[r] \notin {"idle", "login"} => flow[r] = "none"

(* Nobody has a refresh token that the provider has not issued.            *)
Known(s) == s # NoTokens => s.refresh <= issued

TokensKnown ==
  /\ Known(stored)
  /\ \A r \in Requests : Known(hand[r]) /\ Known(won[r])
  /\ \A t \in live : t <= issued

(* What has just been issued is alive until somebody else has it, or the   *)
(* provider ends the session; client credentials come without.              *)
JustIssuedAlive ==
  ~severed => \A r \in Requests :
    /\ pc[r] = "refreshed" => hand[r].refresh \in live
    /\ pc[r] = "acquired" => hand[r].refresh = 0
    /\ flow[r] = "exchanged" => won[r].refresh \in live \cup {0}

(* A provider that rotates never gives a refresh token twice; so the call  *)
(* or the login that has just been given one is the only holder of it.     *)
Differ(s, u) == s # NoTokens => s.refresh # u.refresh

OnlyInHand(r) ==
  /\ Differ(stored, hand[r])
  /\ \A q \in Requests : q # r => Differ(hand[q], hand[r])
  /\ \A q \in Requests : Differ(won[q], hand[r])

OnlyWon(r) ==
  /\ Differ(stored, won[r])
  /\ \A q \in Requests : q # r => Differ(won[q], won[r])
  /\ \A q \in Requests : Differ(hand[q], won[r])

JustIssuedUnshared ==
  deployment.rotates => \A r \in Requests :
    /\ pc[r] = "refreshed" => OnlyInHand(r)
    /\ flow[r] = "exchanged" /\ won[r].refresh # 0 => OnlyWon(r)

SessionInv ==
  TokensKnown /\ JustIssuedAlive /\ JustIssuedUnshared /\ SessionSurvives

-----------------------------------------------------------------------------
(* Types.  The last part of TypeOK, what is held where, apart.             *)

PlainTypes ==
  /\ deployment \in Deployments
  /\ stored \in TokenSets \cup {NoTokens}
  /\ discovered \in BOOLEAN
  /\ port \in Requests \cup {Free, Stuck}
  /\ pc \in [Requests -> {"idle"} \cup Working]
  /\ hand \in [Requests -> TokenSets \cup {NoTokens}]
  /\ flow \in [Requests -> FlowSteps]
  /\ won \in [Requests -> TokenSets \cup {NoTokens}]
  /\ issued \in 0..MaxIssued
  /\ expired \subseteq 1..MaxIssued
  /\ live \subseteq 1..MaxIssued
  /\ severed \in BOOLEAN

HeldWhereUsed ==
  \A r \in Requests :
    /\ pc[r] \in {"refreshing", "refreshed"} => hand[r] # NoTokens /\ hand[r].refresh # 0
    /\ pc[r] \in {"acquired"} \cup InTool => hand[r] # NoTokens
    /\ flow[r] = "exchanged" => won[r] # NoTokens

LEMMA TypeParts == TypeOK <=> PlainTypes /\ HeldWhereUsed
BY Zenon DEF TypeOK, PlainTypes, HeldWhereUsed

LEMMA InitTypeOK == Init => TypeOK
<1> SUFFICES ASSUME Init PROVE TypeOK
  OBVIOUS
<1>1. issued \in 0..MaxIssued
  BY BoundAssumption DEF Init
<1>2. PlainTypes
  BY <1>1, Zenon DEF Init, PlainTypes, FlowSteps
<1>3. HeldWhereUsed
  BY DEF Init, HeldWhereUsed, InTool
<1>4. QED
  BY <1>2, <1>3, TypeParts, Zenon

(* What the provider has just issued is a token set.                       *)
LEMMA NewType ==
  ASSUME TypeOK, issued < MaxIssued, NEW t \in 0..MaxIssued
  PROVE  /\ New \in 1..MaxIssued /\ New \in 0..MaxIssued
         /\ [access |-> New, refresh |-> t] \in TokenSets
         /\ [access |-> New, refresh |-> t] # NoTokens
         /\ [access |-> New, refresh |-> t].refresh = t
BY BoundAssumption, NullAssumption DEF TypeOK, New, TokenSets

LEMMA RefreshType ==
  ASSUME NEW s \in TokenSets PROVE s.refresh \in 0..MaxIssued /\ s # NoTokens
BY NullAssumption DEF TokenSets

LEMMA CallTypes ==
  ASSUME TypeOK, NEW r \in Requests,
         Read(r) \/ UseStored(r) \/ NothingStored(r) \/ DecideExpired(r) \/ Drop(r)
           \/ StoreAnswer(r) \/ ToolReturns(r) \/ ToolRaises(r)
  PROVE  TypeOK'
<1> USE DEF idpVars, Goto, BeginLogin, Answer
<1>1. PlainTypes
  BY TypeParts
<1>2. PlainTypes'
  BY <1>1, ZenonT(60) DEF PlainTypes, Read, UseStored, NothingStored, DecideExpired, Drop,
         StoreAnswer, ToolReturns, ToolRaises, Working, FlowSteps
<1>3. HeldWhereUsed'
  BY SMTT(30) DEF TypeOK, Read, UseStored, NothingStored, DecideExpired, Drop,
         StoreAnswer, ToolReturns, ToolRaises, HeldWhereUsed, InTool, Valid
<1>4. QED
  BY <1>2, <1>3, TypeParts, PTL

(* Calls that fail: the boolean history variable is for Zenon.             *)
LEMMA FailureTypes ==
  ASSUME TypeOK, NEW r \in Requests,
         RejectRefresh(r) \/ TokenRequestFails(r) \/ StorageRaises(r) \/ Cancel(r)
  PROVE  TypeOK'
<1> USE DEF idpVars, Answer
<1>1. PlainTypes
  BY TypeParts
<1>2. severed' \in BOOLEAN /\ discovered' \in BOOLEAN
  BY <1>1, Zenon DEF PlainTypes, RejectRefresh, TokenRequestFails, StorageRaises, Cancel
<1>3. PlainTypes'
  BY <1>1, <1>2, Zenon DEF PlainTypes, RejectRefresh, TokenRequestFails, StorageRaises,
         Cancel
<1>4. HeldWhereUsed'
  BY DEF TypeOK, RejectRefresh, TokenRequestFails, StorageRaises, Cancel, HeldWhereUsed,
         InTool
<1>5. QED
  BY <1>3, <1>4, TypeParts, PTL

LEMMA ServeTypes ==
  ASSUME TypeOK, NEW r \in Requests,
         ServeRefresh(r) \/ ServeAcquire(r) \/ ServeExchange(r)
  PROVE  TypeOK'
<1> USE DEF idpVars, Goto
<1>1. PlainTypes
  BY TypeParts
<1>2. issued < MaxIssued /\ issued' = New /\ expired' = expired
  BY DEF ServeRefresh, ServeAcquire, ServeExchange, Issue
<1>3. issued' \in 0..MaxIssued /\ 0 \in 0..MaxIssued
  <2>1. 0 \in 0..MaxIssued
    BY BoundAssumption
  <2>2. QED
    BY <1>2, <2>1, NewType
<1>4. CASE ServeRefresh(r)
  <2>1. hand[r].refresh \in 1..MaxIssued
    BY <1>4 DEF ServeRefresh, Alive, TypeOK
  <2>2. PICK t \in 1..MaxIssued :
          /\ hand' = [hand EXCEPT ![r] = [access |-> New, refresh |-> t]]
          /\ live' = (live \ {hand[r].refresh}) \cup {t}
    <3>1. New \in 1..MaxIssued
      BY <1>2, <1>3, NewType
    <3>2. QED
      BY <1>4, <2>1, <3>1, Zenon DEF ServeRefresh
  <2>3. /\ [access |-> New, refresh |-> t] \in TokenSets
        /\ [access |-> New, refresh |-> t] # NoTokens
        /\ [access |-> New, refresh |-> t].refresh # 0
    BY <1>2, NewType
  <2>4. PlainTypes'
    BY <1>1, <1>2, <1>3, <1>4, <2>2, <2>3, ZenonT(60) DEF PlainTypes, ServeRefresh, Working
  <2>5. /\ hand'[r] # NoTokens /\ hand'[r].refresh # 0
        /\ \A q \in Requests : q # r => hand'[q] = hand[q] /\ pc'[q] = pc[q]
        /\ pc'[r] = "refreshed" /\ flow' = flow /\ won' = won
    BY <1>1, <1>4, <2>2, <2>3, Zenon DEF PlainTypes, ServeRefresh
  <2>6. HeldWhereUsed'
    BY <2>5 DEF TypeOK, HeldWhereUsed, InTool
  <2>7. QED
    BY <2>4, <2>6, TypeParts, PTL
<1>5. CASE ServeAcquire(r)
  <2>1. PlainTypes'
    BY <1>1, <1>2, <1>3, <1>5, NewType, Zenon DEF PlainTypes, ServeAcquire, Working
  <2>2. /\ hand'[r] # NoTokens
        /\ \A q \in Requests : q # r => hand'[q] = hand[q] /\ pc'[q] = pc[q]
        /\ pc'[r] = "acquired" /\ flow' = flow /\ won' = won
    BY <1>1, <1>2, <1>3, <1>5, NewType, Zenon DEF PlainTypes, ServeAcquire
  <2>3. HeldWhereUsed'
    BY <2>2 DEF TypeOK, HeldWhereUsed, InTool
  <2>4. QED
    BY <2>1, <2>3, TypeParts, PTL
<1>6. CASE ServeExchange(r)
  <2>1. PICK new \in {0, New} :
          /\ won' = [won EXCEPT ![r] = [access |-> New, refresh |-> new]]
          /\ live' = live \cup ({new} \ {0})
    BY <1>6 DEF ServeExchange
  <2>2. /\ [access |-> New, refresh |-> new] \in TokenSets
        /\ [access |-> New, refresh |-> new] # NoTokens
        /\ {new} \ {0} \subseteq 1..MaxIssued
    BY <1>2, <1>3, NewType
  <2>3. live' \subseteq 1..MaxIssued
    BY <1>1, <2>1, <2>2, Zenon DEF PlainTypes
  <2>4. PlainTypes'
    BY <1>1, <1>2, <1>3, <1>6, <2>1, <2>2, <2>3, Zenon
       DEF PlainTypes, ServeExchange, FlowSteps
  <2>5. /\ won'[r] # NoTokens
        /\ \A q \in Requests : q # r => won'[q] = won[q] /\ flow'[q] = flow[q]
        /\ pc' = pc /\ hand' = hand
    BY <1>1, <1>6, <2>1, <2>2, Zenon DEF PlainTypes, ServeExchange
  <2>6. HeldWhereUsed'
    BY <2>5 DEF TypeOK, HeldWhereUsed, InTool
  <2>7. QED
    BY <2>4, <2>6, TypeParts, PTL
<1>7. QED
  BY <1>4, <1>5, <1>6

LEMMA FlowTypes ==
  ASSUME TypeOK, NEW r \in Requests,
         \/ Discover(r) \/ DiscoveryFails(r) \/ Listen(r) \/ PortInUse(r)
         \/ SelfTestFails(r) \/ CallbackArrives(r) \/ CallbackFails(r)
         \/ ExchangeFails(r) \/ StoreLogin(r)
  PROVE  TypeOK'
<1> USE DEF idpVars, Answer, Goto, FlowFails, Shutdown, HasEndpoints
<1>1. PlainTypes
  BY TypeParts
<1>2. CASE Discover(r) \/ Listen(r) \/ CallbackArrives(r) \/ StoreLogin(r)
  <2>1. PlainTypes'
    BY <1>1, <1>2, ZenonT(60) DEF PlainTypes, Discover, Listen, CallbackArrives, StoreLogin,
         FlowSteps, Working
  <2>2. HeldWhereUsed'
    BY <1>2 DEF TypeOK, Discover, Listen, CallbackArrives, StoreLogin, HeldWhereUsed,
         InTool
  <2>3. QED
    BY <2>1, <2>2, TypeParts, PTL
<1>3. CASE DiscoveryFails(r) \/ PortInUse(r) \/ SelfTestFails(r) \/ CallbackFails(r)
           \/ ExchangeFails(r)
  <2>1. PlainTypes'
    BY <1>1, <1>3, Zenon DEF PlainTypes, DiscoveryFails, PortInUse, SelfTestFails,
         CallbackFails, ExchangeFails, FlowSteps
  <2>2. HeldWhereUsed'
    BY <1>3 DEF TypeOK, DiscoveryFails, PortInUse, SelfTestFails, CallbackFails,
         ExchangeFails, HeldWhereUsed, InTool
  <2>3. QED
    BY <2>1, <2>2, TypeParts, PTL
<1>4. QED
  BY <1>2, <1>3

LEMMA EnvironmentTypes ==
  ASSUME TypeOK, StuckListenerStops \/ Restart \/ Expire \/ Revoke \/ UNCHANGED vars
  PROVE  TypeOK'
<1> USE DEF idpVars, processVars, vars
<1>1. PlainTypes
  BY TypeParts
<1>2. severed' \in BOOLEAN
  BY <1>1, Zenon DEF PlainTypes, StuckListenerStops, Restart, Expire, Revoke
<1>3. expired' \subseteq 1..MaxIssued /\ live' \subseteq 1..MaxIssued
  <2>1. 1..issued \subseteq 1..MaxIssued
    BY BoundAssumption DEF TypeOK
  <2>2. QED
    BY <1>1, <2>1, Zenon
       DEF PlainTypes, StuckListenerStops, Restart, Expire, Revoke
<1>4. PlainTypes'
  <2>1. CASE Restart
    BY <1>1, <1>2, <1>3, <2>1, Zenon DEF PlainTypes, Restart, FlowSteps
  <2>2. CASE StuckListenerStops \/ Expire \/ Revoke \/ UNCHANGED vars
    BY <1>1, <1>2, <1>3, <2>2, Zenon DEF PlainTypes, StuckListenerStops, Expire, Revoke
  <2>3. QED
    BY <2>1, <2>2
<1>5. HeldWhereUsed'
  BY DEF TypeOK, StuckListenerStops, Restart, Expire, Revoke, HeldWhereUsed, InTool
<1>6. QED
  BY <1>4, <1>5, TypeParts, PTL

LEMMA NextTypeOK == TypeOK /\ [Next]_vars => TypeOK'
BY CallTypes, FailureTypes, ServeTypes, FlowTypes, EnvironmentTypes, Zenon
   DEF Next, CallStep, FlowStep

(* Every state is of the types, and whoever uses a token set has one       *)
(* (AuthenticationMiddleware, OAuthService).                               *)
THEOREM TypeInvariant == Spec => []TypeOK
BY InitTypeOK, NextTypeOK, PTL DEF Spec

-----------------------------------------------------------------------------
(* The callback port.                                                      *)

PortInv == NoLoginBesides /\ PortHeldWhileWaiting

LEMMA InitPort == Init => PortInv
BY NullAssumption DEF Init, PortInv, NoLoginBesides, PortHeldWhileWaiting

(* What a call does that leaves logins alone, or begins its own.           *)
LEMMA CallPort ==
  ASSUME TypeOK, PortInv, NEW r \in Requests, Read(r) \/ CallStep(r) \/ Cancel(r)
  PROVE  PortInv'
<1>1. /\ port' = port
      /\ flow' = flow \/ (flow[r] = "none" /\ flow' = [flow EXCEPT ![r] = "starting"]
                          /\ pc' = [pc EXCEPT ![r] = "login"])
  BY DEF PortInv, NoLoginBesides, Read, CallStep, Cancel, UseStored, NothingStored,
         DecideExpired, Drop, ServeRefresh, RejectRefresh, ServeAcquire,
         TokenRequestFails, StoreAnswer, StorageRaises, ToolReturns, ToolRaises,
         BeginLogin, Goto, InTool
<1>2. /\ \A q \in Requests : q # r => pc'[q] = pc[q]
      /\ flow[r] = "none" \/ pc'[r] = "idle"
  BY DEF PortInv, NoLoginBesides, TypeOK, Read, CallStep, Cancel, UseStored,
         NothingStored, DecideExpired, Drop, ServeRefresh, RejectRefresh, ServeAcquire,
         TokenRequestFails, StoreAnswer, StorageRaises, ToolReturns, ToolRaises,
         BeginLogin, Goto, Answer, InTool
<1>3. QED
  BY <1>1, <1>2 DEF TypeOK, PortInv, NoLoginBesides, PortHeldWhileWaiting

(* A login moves only itself; the port is its own, or nobody's.            *)
LEMMA FlowPort ==
  ASSUME TypeOK, PortInv, NEW r \in Requests, FlowStep(r)
  PROVE  PortInv'
<1> USE DEF HasEndpoints, Shutdown, FlowFails, Answer, Goto
<1>0. pc \in [Requests -> {"idle"} \cup Working] /\ flow \in [Requests -> FlowSteps]
  BY DEF TypeOK
<1>1. /\ \A q \in Requests : q # r => pc'[q] = pc[q] /\ flow'[q] = flow[q]
      /\ pc'[r] = pc[r] \/ flow'[r] = "none"
      /\ flow'[r] # "none" => flow[r] # "none"
  BY <1>0 DEF FlowStep, Discover, DiscoveryFails, Listen, PortInUse, SelfTestFails,
         CallbackArrives, CallbackFails, ServeExchange, ExchangeFails, StoreLogin
<1>2. NoLoginBesides'
  BY <1>1 DEF PortInv, NoLoginBesides
<1>3. CASE Listen(r)
  BY <1>0, <1>2, <1>3, NullAssumption DEF Listen, PortInv, PortHeldWhileWaiting
<1>4. CASE CallbackArrives(r) \/ CallbackFails(r) \/ SelfTestFails(r)
  BY <1>0, <1>2, <1>4, NullAssumption DEF CallbackArrives, CallbackFails, SelfTestFails,
         PortInv, PortHeldWhileWaiting
<1>5. CASE Discover(r) \/ DiscoveryFails(r) \/ PortInUse(r) \/ ServeExchange(r)
           \/ ExchangeFails(r) \/ StoreLogin(r)
  BY <1>0, <1>2, <1>5 DEF Discover, DiscoveryFails, PortInUse, ServeExchange, ExchangeFails,
         StoreLogin, PortInv, PortHeldWhileWaiting
<1>6. QED
  BY <1>2, <1>3, <1>4, <1>5 DEF FlowStep, PortInv

LEMMA NextPort == TypeOK /\ PortInv /\ [Next]_vars => PortInv'
<1> SUFFICES ASSUME TypeOK, PortInv, [Next]_vars PROVE PortInv'
  OBVIOUS
<1>1. CASE StuckListenerStops \/ Restart
  BY <1>1, NullAssumption DEF StuckListenerStops, Restart, PortInv, NoLoginBesides,
         PortHeldWhileWaiting
<1>2. CASE Expire \/ Revoke \/ UNCHANGED vars
  BY <1>2, Zenon DEF Expire, Revoke, vars, processVars, PortInv, NoLoginBesides,
         PortHeldWhileWaiting
<1>3. QED
  BY <1>1, <1>2, CallPort, FlowPort, Zenon DEF Next

(* A login that waits for its callback has the port, and no other does,    *)
(* whether or not its call is still there (OAuthService.initiate_flow,     *)
(* CallbackServer).                                                        *)
THEOREM PortHeld == Spec => []PortHeldWhileWaiting
<1>1. Spec => []PortInv
  BY InitPort, NextPort, TypeInvariant, PTL DEF Spec
<1>2. PortInv => PortHeldWhileWaiting
  BY DEF PortInv
<1>3. QED
  BY <1>1, <1>2, PTL

-----------------------------------------------------------------------------
(* The session.                                                            *)

LEMMA InitSession == Init => SessionInv
BY DEF Init, SessionInv, TokensKnown, Known, JustIssuedAlive, JustIssuedUnshared,
       SessionSurvives

(* Most steps move no token set: a holder keeps his or loses it, and he    *)
(* who loses what he was about to store has severed the session.           *)
NothingGained ==
  /\ deployment' = deployment /\ issued' = issued /\ live' = live
  /\ stored' \in {stored, NoTokens}
  /\ severed => severed'
  /\ \A q \in Requests :
       /\ hand'[q] \in {hand[q], NoTokens} /\ won'[q] \in {won[q], NoTokens}
       /\ pc'[q] \in {"refreshed", "acquired"} => pc'[q] = pc[q] /\ hand'[q] = hand[q]
       /\ flow'[q] = "exchanged" => flow[q] = "exchanged" /\ won'[q] = won[q]
       /\ pc[q] = "refreshed" => pc'[q] = "refreshed" \/ severed'

LEMMA NothingGainedSession ==
  ASSUME SessionInv, NothingGained
  PROVE  SessionInv'
<1> USE DEF NothingGained, SessionInv
<1>1. TokensKnown'
  BY DEF TokensKnown, Known
<1>2. JustIssuedAlive'
  BY DEF JustIssuedAlive
<1>3. JustIssuedUnshared'
  <2>1. ASSUME NEW r \in Requests, deployment.rotates, pc'[r] = "refreshed"
        PROVE  OnlyInHand(r)'
    BY <2>1 DEF JustIssuedUnshared, OnlyInHand, Differ
  <2>2. ASSUME NEW r \in Requests, deployment.rotates, flow'[r] = "exchanged",
               won'[r].refresh # 0
        PROVE  OnlyWon(r)'
    BY <2>2 DEF JustIssuedUnshared, OnlyWon, Differ
  <2>3. QED
    BY <2>1, <2>2 DEF JustIssuedUnshared
<1>4. SessionSurvives'
  BY DEF SessionSurvives, Alive
<1>5. QED
  BY <1>1, <1>2, <1>3, <1>4

LEMMA CallGainsNothing ==
  ASSUME TypeOK, NEW r \in Requests,
         \/ UseStored(r) \/ NothingStored(r) \/ DecideExpired(r) \/ Drop(r)
         \/ RejectRefresh(r) \/ TokenRequestFails(r) \/ StorageRaises(r)
         \/ ToolReturns(r) \/ ToolRaises(r) \/ Cancel(r)
  PROVE  NothingGained
<1>0. /\ pc \in [Requests -> {"idle"} \cup Working] /\ flow \in [Requests -> FlowSteps]
      /\ hand \in [Requests -> TokenSets \cup {NoTokens}]
  BY DEF TypeOK
<1>1. CASE \/ UseStored(r) \/ NothingStored(r) \/ DecideExpired(r) \/ Drop(r)
           \/ RejectRefresh(r) \/ ToolReturns(r) \/ ToolRaises(r)
  BY <1>0, <1>1 DEF NothingGained, UseStored, NothingStored, DecideExpired, Drop,
         RejectRefresh, ToolReturns, ToolRaises, InTool, Goto, BeginLogin, Answer,
         idpVars
<1>2. CASE TokenRequestFails(r) \/ StorageRaises(r) \/ Cancel(r)
  BY <1>0, <1>2 DEF NothingGained, TokenRequestFails, StorageRaises, Cancel, Answer,
         idpVars
<1>3. QED
  BY <1>1, <1>2

LEMMA FlowGainsNothing ==
  ASSUME TypeOK, NEW r \in Requests,
         \/ Discover(r) \/ DiscoveryFails(r) \/ Listen(r) \/ PortInUse(r)
         \/ SelfTestFails(r) \/ CallbackArrives(r) \/ CallbackFails(r)
         \/ ExchangeFails(r)
  PROVE  NothingGained
<1>0. /\ pc \in [Requests -> {"idle"} \cup Working] /\ flow \in [Requests -> FlowSteps]
      /\ hand \in [Requests -> TokenSets \cup {NoTokens}]
      /\ won \in [Requests -> TokenSets \cup {NoTokens}]
  BY DEF TypeOK
<1>1. QED
  BY <1>0 DEF NothingGained, Discover, DiscoveryFails, Listen, PortInUse, SelfTestFails,
         CallbackArrives, CallbackFails, ExchangeFails, FlowFails, HasEndpoints, Answer,
         idpVars

LEMMA EnvironmentGainsNothing ==
  ASSUME StuckListenerStops \/ Restart \/ Expire \/ UNCHANGED vars
  PROVE  NothingGained
<1>1. CASE Restart
  <2>1. /\ severed => severed'
        /\ \A q \in Requests : pc[q] = "refreshed" => severed'
    BY <1>1, Zenon DEF Restart
  <2>2. /\ deployment' = deployment /\ issued' = issued /\ live' = live
        /\ stored' \in {stored, NoTokens}
    BY <1>1 DEF Restart, idpVars
  <2>3. ASSUME NEW q \in Requests
        PROVE  /\ hand'[q] \in {hand[q], NoTokens} /\ won'[q] \in {won[q], NoTokens}
               /\ pc'[q] \notin {"refreshed", "acquired"} /\ flow'[q] # "exchanged"
    BY <1>1 DEF Restart
  <2>4. QED
    BY <2>1, <2>2, <2>3, Zenon DEF NothingGained
<1>2. CASE StuckListenerStops \/ Expire \/ UNCHANGED vars
  <2>1. UNCHANGED <<deployment, stored, pc, hand, flow, won, issued, live, severed>>
    BY <1>2 DEF StuckListenerStops, Expire, vars, processVars, idpVars
  <2>2. QED
    BY <2>1 DEF NothingGained
<1>3. QED
  BY <1>1, <1>2

LEMMA EnvironmentSession ==
  ASSUME TypeOK, SessionInv, StuckListenerStops \/ Restart \/ Expire \/ Revoke
                               \/ UNCHANGED vars
  PROVE  SessionInv'
<1>1. CASE StuckListenerStops \/ Restart \/ Expire \/ UNCHANGED vars
  BY <1>1, EnvironmentGainsNothing, NothingGainedSession
<1>2. CASE Revoke
  <2>1. /\ severed' /\ live' \subseteq live
        /\ UNCHANGED <<stored, processVars, issued, expired>>
    BY <1>2 DEF Revoke
  <2>2. QED
    BY <2>1, Zenon DEF processVars, SessionInv, TokensKnown, Known, JustIssuedAlive,
         JustIssuedUnshared, OnlyInHand, OnlyWon, Differ, SessionSurvives
<1>3. QED
  BY <1>1, <1>2

-----------------------------------------------------------------------------
(* The steps that do move one.                                             *)

(* The storage's set is copied: whoever holds a new one holds another.     *)
LEMMA ReadSession ==
  ASSUME TypeOK, SessionInv, NEW r \in Requests, Read(r)
  PROVE  SessionInv'
<1>1. /\ UNCHANGED <<deployment, stored, flow, won, issued, live, severed>>
      /\ hand'[r] = stored /\ pc'[r] = "read" /\ pc[r] = "idle"
      /\ \A q \in Requests : q # r => hand'[q] = hand[q] /\ pc'[q] = pc[q]
  BY DEF Read, Goto, idpVars, TypeOK
<1>2. TokensKnown'
  BY <1>1 DEF SessionInv, TokensKnown, Known
<1>3. JustIssuedAlive'
  BY <1>1 DEF SessionInv, JustIssuedAlive
<1>4. JustIssuedUnshared'
  BY <1>1 DEF SessionInv, JustIssuedUnshared, OnlyInHand, OnlyWon, Differ
<1>5. SessionSurvives'
  BY <1>1 DEF SessionInv, SessionSurvives, Alive
<1>6. QED
  BY <1>2, <1>3, <1>4, <1>5 DEF SessionInv

(* A number that has just been given is nobody else's.                     *)
LEMMA NewIsNew ==
  ASSUME TypeOK, TokensKnown
  PROVE  /\ New \in Nat /\ New > issued /\ New # 0 /\ New \notin live
         /\ stored # NoTokens => stored.refresh # New
         /\ \A q \in Requests : /\ hand[q] # NoTokens => hand[q].refresh # New
                                /\ won[q] # NoTokens => won[q].refresh # New
BY RefreshType DEF New, TypeOK, TokensKnown, Known

LEMMA RefreshSession ==
  ASSUME TypeOK, SessionInv, NEW r \in Requests, ServeRefresh(r)
  PROVE  SessionInv'
<1> DEFINE old == hand[r].refresh
           new == IF deployment.rotates THEN New ELSE old
<1>1. /\ UNCHANGED <<deployment, stored, flow, won, severed>>
      /\ issued' = New /\ pc'[r] = "refreshed" /\ pc[r] = "refreshing"
      /\ hand'[r] = [access |-> New, refresh |-> new]
      /\ live' = (live \ {old}) \cup {new}
      /\ hand[r] # NoTokens /\ old \in live
      /\ \A q \in Requests : q # r => hand'[q] = hand[q] /\ pc'[q] = pc[q]
  BY DEF ServeRefresh, Issue, Alive, Goto, TypeOK
<1>2. hand'[r].refresh = new /\ hand'[r] # NoTokens /\ new \in live'
  <2>1. new \in 0..MaxIssued
    <3>1. old \in 0..MaxIssued
      BY <1>1, RefreshType DEF TypeOK
    <3>2. issued < MaxIssued
      BY DEF ServeRefresh, Issue
    <3>3. New \in 0..MaxIssued
      BY <3>1, <3>2, NewType
    <3>4. QED
      BY <3>1, <3>3
  <2>2. QED
    BY <1>1, <2>1, NewType DEF ServeRefresh, Issue
<1>3. /\ old <= issued /\ issued <= New /\ old # New
      /\ New \in Nat /\ issued \in Nat /\ old \in Nat
  <2>1. issued \in 0..MaxIssued /\ old \in 1..MaxIssued /\ old <= issued
    BY <1>1 DEF TypeOK, SessionInv, TokensKnown
  <2>2. QED
    BY <2>1, BoundAssumption DEF New
<1> HIDE DEF old, new
<1>4. TokensKnown'
  <2>1. new <= New
    BY <1>3 DEF new
  <2>2. ASSUME NEW s \in TokenSets \cup {NoTokens}, Known(s) PROVE Known(s)'
    BY <1>1, <1>3, <2>2, RefreshType DEF Known
  <2>3. Known(stored)' /\ \A q \in Requests : Known(won[q])'
    BY <1>1, <2>2 DEF SessionInv, TokensKnown, TypeOK, Known
  <2>4. \A q \in Requests : Known(hand[q])'
    BY <1>1, <1>2, <1>3, <2>1, <2>2 DEF SessionInv, TokensKnown, TypeOK, Known
  <2>5. \A t \in live' : t <= issued'
    BY <1>1, <1>3, <2>1 DEF SessionInv, TokensKnown, TypeOK
  <2>6. QED
    BY <2>3, <2>4, <2>5 DEF TokensKnown
<1>5. ASSUME deployment.rotates,
             NEW q \in Requests, q # r, pc[q] = "refreshed"
      PROVE  hand[q].refresh # old
  BY <1>1, <1>5 DEF SessionInv, JustIssuedUnshared, OnlyInHand, Differ, old
<1>6. ASSUME deployment.rotates,
             NEW q \in Requests, flow[q] = "exchanged", won[q].refresh # 0
      PROVE  won[q].refresh # old
  BY <1>1, <1>6 DEF SessionInv, JustIssuedUnshared, OnlyWon, Differ, old
<1>7. JustIssuedAlive'
  <2>1. CASE deployment.rotates
    BY <1>1, <1>2, <1>5, <1>6, <2>1 DEF SessionInv, JustIssuedAlive
  <2>2. CASE ~deployment.rotates
    <3>1. live' = live
      BY <1>1, <2>2 DEF new
    <3>2. QED
      BY <1>1, <1>2, <3>1 DEF SessionInv, JustIssuedAlive
  <2>3. QED
    BY <2>1, <2>2
<1>8. JustIssuedUnshared'
  <2>1. SUFFICES ASSUME deployment.rotates PROVE JustIssuedUnshared'
    BY <1>1 DEF JustIssuedUnshared
  <2>2. new = New
    BY <2>1 DEF new
  <2>3. /\ Differ(stored, hand'[r])
        /\ \A q \in Requests : Differ(hand[q], hand'[r]) /\ Differ(won[q], hand'[r])
    BY <1>2, <2>2, NewIsNew DEF SessionInv, Differ
  <2>4. OnlyInHand(r)'
    BY <1>1, <2>3 DEF OnlyInHand, Differ
  <2>5. ASSUME NEW q \in Requests, q # r, pc'[q] = "refreshed" PROVE OnlyInHand(q)'
    <3>1. OnlyInHand(q)
      BY <1>1, <2>1, <2>5 DEF SessionInv, JustIssuedUnshared
    <3>2. hand'[r].refresh # hand[q].refresh
      BY <1>1, <1>2, <2>2, <2>5, NewIsNew DEF SessionInv, TypeOK
    <3>3. QED
      BY <1>1, <2>5, <3>1, <3>2 DEF OnlyInHand, Differ
  <2>6. ASSUME NEW q \in Requests, flow'[q] = "exchanged", won'[q].refresh # 0
        PROVE  OnlyWon(q)'
    <3>1. OnlyWon(q)
      BY <1>1, <2>1, <2>6 DEF SessionInv, JustIssuedUnshared
    <3>2. hand'[r].refresh # won[q].refresh
      BY <1>1, <1>2, <2>2, <2>6, NewIsNew DEF SessionInv, TypeOK
    <3>3. QED
      BY <1>1, <3>1, <3>2 DEF OnlyWon, Differ
  <2>7. QED
    BY <2>4, <2>5, <2>6 DEF JustIssuedUnshared
<1>9. SessionSurvives'
  BY <1>1, <1>2 DEF SessionSurvives, Alive
<1>10. QED
  BY <1>4, <1>7, <1>8, <1>9 DEF SessionInv

(* Without a refresh token there is nothing to share.                      *)
LEMMA AcquireSession ==
  ASSUME TypeOK, SessionInv, NEW r \in Requests, ServeAcquire(r)
  PROVE  SessionInv'
<1>0. 0 \in 0..MaxIssued
  BY BoundAssumption
<1>1. /\ UNCHANGED <<deployment, stored, flow, won, live, severed>>
      /\ issued' = New /\ pc'[r] = "acquired" /\ pc[r] = "acquiring"
      /\ hand'[r] = [access |-> New, refresh |-> 0]
      /\ \A q \in Requests : q # r => hand'[q] = hand[q] /\ pc'[q] = pc[q]
  BY DEF ServeAcquire, Issue, Goto, TypeOK
<1>2. hand'[r].refresh = 0 /\ hand'[r] # NoTokens
  BY <1>0, <1>1, NewType DEF ServeAcquire, Issue
<1>3. issued \in Nat /\ New = issued + 1
  BY BoundAssumption DEF New, TypeOK
<1>4. TokensKnown'
  <2>1. ASSUME NEW s \in TokenSets \cup {NoTokens}, Known(s) PROVE Known(s)'
    BY <1>1, <1>3, <2>1, RefreshType DEF Known
  <2>2. Known(stored)' /\ \A q \in Requests : Known(won[q])'
    BY <1>1, <2>1 DEF SessionInv, TokensKnown, TypeOK, Known
  <2>3. \A q \in Requests : Known(hand[q])'
    BY <1>1, <1>2, <1>3, <2>1 DEF SessionInv, TokensKnown, TypeOK, Known
  <2>4. \A t \in live' : t <= issued'
    BY <1>1, <1>3, BoundAssumption DEF SessionInv, TokensKnown, TypeOK
  <2>5. QED
    BY <2>2, <2>3, <2>4 DEF TokensKnown
<1>5. JustIssuedAlive'
  BY <1>1, <1>2 DEF SessionInv, JustIssuedAlive
<1>6. JustIssuedUnshared'
  <2>1. \A q \in Requests : pc[q] = "refreshed" => hand[q].refresh # 0
    BY DEF TypeOK
  <2>2. QED
    BY <1>1, <1>2, <2>1 DEF SessionInv, JustIssuedUnshared, OnlyInHand, OnlyWon, Differ
<1>7. SessionSurvives'
  BY <1>1 DEF SessionInv, SessionSurvives, Alive
<1>8. QED
  BY <1>4, <1>5, <1>6, <1>7 DEF SessionInv

LEMMA ExchangeSession ==
  ASSUME TypeOK, SessionInv, NEW r \in Requests, ServeExchange(r)
  PROVE  SessionInv'
<1>1. PICK new \in {0, New} :
        /\ won' = [won EXCEPT ![r] = [access |-> New, refresh |-> new]]
        /\ live' = live \cup ({new} \ {0})
  BY DEF ServeExchange
<1>2. /\ UNCHANGED <<deployment, stored, pc, hand, severed>>
      /\ issued' = New /\ flow'[r] = "exchanged"
      /\ won'[r] = [access |-> New, refresh |-> new]
      /\ \A q \in Requests : q # r => won'[q] = won[q] /\ flow'[q] = flow[q]
  BY <1>1 DEF ServeExchange, Issue, TypeOK
<1>3. issued \in Nat /\ New = issued + 1 /\ new <= New /\ New # 0
  BY <1>1, BoundAssumption DEF New, TypeOK
<1>4. won'[r].refresh = new /\ won'[r] # NoTokens
  <2>1. 0 \in 0..MaxIssued /\ issued < MaxIssued
    BY BoundAssumption DEF ServeExchange, Issue
  <2>2. New \in 0..MaxIssued
    BY <2>1, NewType
  <2>3. QED
    BY <1>1, <1>2, <2>1, <2>2, NewType
<1>5. TokensKnown'
  <2>1. ASSUME NEW s \in TokenSets \cup {NoTokens}, Known(s) PROVE Known(s)'
    BY <1>2, <1>3, <2>1, RefreshType DEF Known
  <2>2. Known(stored)' /\ \A q \in Requests : Known(hand[q])'
    BY <1>2, <2>1 DEF SessionInv, TokensKnown, TypeOK, Known
  <2>3. \A q \in Requests : Known(won[q])'
    BY <1>2, <1>3, <1>4, <2>1 DEF SessionInv, TokensKnown, TypeOK, Known
  <2>4. \A t \in live' : t <= issued'
    BY <1>1, <1>2, <1>3 DEF SessionInv, TokensKnown, TypeOK
  <2>5. QED
    BY <2>2, <2>3, <2>4 DEF TokensKnown
<1>6. JustIssuedAlive'
  BY <1>1, <1>2, <1>4 DEF SessionInv, JustIssuedAlive
<1>7. JustIssuedUnshared'
  <2>1. SUFFICES ASSUME deployment.rotates PROVE JustIssuedUnshared'
    BY <1>2 DEF JustIssuedUnshared
  <2>2. ASSUME NEW q \in Requests, pc'[q] = "refreshed" PROVE OnlyInHand(q)'
    <3>1. OnlyInHand(q) /\ hand[q] # NoTokens /\ hand[q].refresh # 0
      BY <1>2, <2>1, <2>2 DEF SessionInv, JustIssuedUnshared, TypeOK
    <3>2. won'[r].refresh # hand[q].refresh
      BY <1>4, <3>1, NewIsNew DEF SessionInv
    <3>3. QED
      BY <1>2, <3>1, <3>2 DEF OnlyInHand, Differ
  <2>3. ASSUME NEW q \in Requests, flow'[q] = "exchanged", won'[q].refresh # 0
        PROVE  OnlyWon(q)'
    <3>1. CASE q = r
      BY <1>2, <1>4, <2>3, <3>1, NewIsNew DEF OnlyWon, Differ, SessionInv
    <3>2. CASE q # r
      <4>1. OnlyWon(q) /\ won[q] # NoTokens /\ won[q].refresh # 0
        BY <1>2, <2>1, <2>3, <3>2 DEF SessionInv, JustIssuedUnshared, TypeOK
      <4>2. won'[r].refresh # won[q].refresh
        BY <1>4, <4>1, NewIsNew DEF SessionInv
      <4>3. QED
        BY <1>2, <3>2, <4>1, <4>2 DEF OnlyWon, Differ
    <3>3. QED
      BY <3>1, <3>2
  <2>4. QED
    BY <2>2, <2>3 DEF JustIssuedUnshared
<1>8. SessionSurvives'
  BY <1>1, <1>2 DEF SessionInv, SessionSurvives, Alive
<1>9. QED
  BY <1>5, <1>6, <1>7, <1>8 DEF SessionInv

(* What is stored is alive, or comes without a refresh token; and what the *)
(* others are about to store is still another.                             *)
LEMMA StoreAnswerSession ==
  ASSUME TypeOK, SessionInv, NEW r \in Requests, StoreAnswer(r)
  PROVE  SessionInv'
<1>1. /\ UNCHANGED <<deployment, hand, flow, won, issued, live, severed>>
      /\ stored' = hand[r] /\ pc'[r] \notin {"refreshed", "acquired"}
      /\ pc[r] \in {"refreshed", "acquired"}
      /\ \A q \in Requests : q # r => pc'[q] = pc[q]
  BY DEF StoreAnswer, Goto, idpVars, TypeOK
<1>2. TokensKnown'
  BY <1>1 DEF SessionInv, TokensKnown, Known
<1>3. JustIssuedAlive'
  BY <1>1 DEF SessionInv, JustIssuedAlive
<1>4. JustIssuedUnshared'
  BY <1>1 DEF SessionInv, JustIssuedUnshared, OnlyInHand, OnlyWon, Differ
<1>5. SessionSurvives'
  BY <1>1 DEF SessionInv, JustIssuedAlive, SessionSurvives, Alive
<1>6. QED
  BY <1>2, <1>3, <1>4, <1>5 DEF SessionInv

LEMMA StoreLoginSession ==
  ASSUME TypeOK, SessionInv, NEW r \in Requests, StoreLogin(r)
  PROVE  SessionInv'
<1>1. /\ UNCHANGED <<deployment, issued, live, severed>>
      /\ stored' = won[r] /\ flow[r] = "exchanged" /\ flow'[r] = "none"
      /\ won'[r] = NoTokens
      /\ \A q \in Requests : q # r => pc'[q] = pc[q] /\ hand'[q] = hand[q]
                                        /\ won'[q] = won[q] /\ flow'[q] = flow[q]
      /\ \/ pc[r] = "login" /\ pc'[r] = "tool_login" /\ hand'[r] = won[r]
         \/ pc'[r] = pc[r] /\ hand'[r] = hand[r]
  BY DEF StoreLogin, Goto, idpVars, TypeOK
<1>2. TokensKnown'
  BY <1>1 DEF SessionInv, TokensKnown, Known
<1>3. JustIssuedAlive'
  BY <1>1 DEF SessionInv, JustIssuedAlive
<1>4. JustIssuedUnshared'
  <2>1. ASSUME NEW q \in Requests, deployment.rotates, pc'[q] = "refreshed"
        PROVE  OnlyInHand(q)'
    BY <1>1, <2>1 DEF SessionInv, JustIssuedUnshared, OnlyInHand, Differ
  <2>2. ASSUME NEW q \in Requests, deployment.rotates, flow'[q] = "exchanged",
               won'[q].refresh # 0
        PROVE  OnlyWon(q)'
    BY <1>1, <2>2 DEF SessionInv, JustIssuedUnshared, OnlyWon, Differ
  <2>3. QED
    BY <1>1, <2>1, <2>2 DEF JustIssuedUnshared
<1>5. SessionSurvives'
  BY <1>1 DEF SessionInv, JustIssuedAlive, SessionSurvives, Alive
<1>6. QED
  BY <1>2, <1>3, <1>4, <1>5 DEF SessionInv

LEMMA NextSession == TypeOK /\ SessionInv /\ [Next]_vars => SessionInv'
<1> SUFFICES ASSUME TypeOK, SessionInv, [Next]_vars PROVE SessionInv'
  OBVIOUS
<1>1. ASSUME NEW r \in Requests, CallStep(r) \/ Read(r) \/ Cancel(r) PROVE SessionInv'
  BY <1>1, CallGainsNothing, NothingGainedSession, ReadSession, RefreshSession,
     AcquireSession, StoreAnswerSession, Zenon DEF CallStep
<1>2. ASSUME NEW r \in Requests, FlowStep(r) PROVE SessionInv'
  BY <1>2, FlowGainsNothing, NothingGainedSession, ExchangeSession, StoreLoginSession,
     Zenon DEF FlowStep
<1>3. QED
  BY <1>1, <1>2, EnvironmentSession, Zenon DEF Next

(* Whatever calls race, log in, are cancelled or fail: a refresh token     *)
(* that is stored is honoured, or its successor is about to be stored      *)
(* (AuthenticationMiddleware._handle_refresh).                             *)
THEOREM SessionKept == Spec => []SessionSurvives
<1>1. Spec => []SessionInv
  BY InitSession, NextSession, TypeInvariant, PTL DEF Spec
<1>2. SessionInv => SessionSurvives
  BY DEF SessionInv
<1>3. QED
  BY <1>1, <1>2, PTL

-----------------------------------------------------------------------------
(* The ledger.  The number of a token set that is about to be stored is    *)
(* nobody else's who is to store one, and not that of what is stored.      *)

NumbersKnown ==
  /\ stored # NoTokens => stored.access <= issued
  /\ \A r \in Storing : hand[r].access <= issued
  /\ \A r \in LoggedIn : won[r].access <= issued

NumbersApart ==
  /\ \A r, q \in Storing : hand[r].access = hand[q].access => r = q
  /\ \A r, q \in LoggedIn : won[r].access = won[q].access => r = q
  /\ \A r \in Storing, q \in LoggedIn : hand[r].access # won[q].access

NotYetStored ==
  stored # NoTokens =>
    /\ \A r \in Storing : hand[r].access # stored.access
    /\ \A r \in LoggedIn : won[r].access # stored.access

LedgerInv == NumbersKnown /\ NumbersApart /\ NotYetStored

LEMMA InitLedger == Init => LedgerInv
BY DEF Init, LedgerInv, NumbersKnown, NumbersApart, NotYetStored, Storing, LoggedIn

(* What nobody gains is not stored either.                                 *)
LEMMA NothingGainedLedger ==
  ASSUME LedgerInv, NothingGained
  PROVE  LedgerInv'
<1>1. /\ issued' = issued /\ stored' \in {stored, NoTokens}
      /\ \A r \in Storing' : r \in Storing /\ hand'[r] = hand[r]
      /\ \A r \in LoggedIn' : r \in LoggedIn /\ won'[r] = won[r]
  BY DEF NothingGained, Storing, LoggedIn
<1>2. QED
  BY <1>1 DEF LedgerInv, NumbersKnown, NumbersApart, NotYetStored

(* A call is given a new token set to store.                               *)
GivenToCall(r) ==
  /\ issued' = New /\ stored' = stored
  /\ Storing' = Storing \cup {r} /\ LoggedIn' = LoggedIn /\ won' = won
  /\ hand'[r] \in TokenSets /\ hand'[r].access = New
  /\ \A q \in Requests : q # r => hand'[q] = hand[q]
  /\ r \notin Storing

(* A login is.                                                             *)
GivenToLogin(r) ==
  /\ issued' = New /\ stored' = stored
  /\ LoggedIn' = LoggedIn \cup {r} /\ Storing' = Storing /\ hand' = hand
  /\ won'[r] \in TokenSets /\ won'[r].access = New
  /\ \A q \in Requests : q # r => won'[q] = won[q]
  /\ r \notin LoggedIn

LEMMA AccessType ==
  ASSUME NEW s \in TokenSets PROVE s.access \in 1..MaxIssued /\ s # NoTokens
BY NullAssumption DEF TokenSets

(* Whoever is about to store a token set holds one.                        *)
LEMMA HoldersTypes ==
  ASSUME TypeOK
  PROVE  /\ issued \in Nat /\ New = issued + 1
         /\ \A r \in Storing : r \in Requests /\ hand[r] \in TokenSets
         /\ \A r \in LoggedIn : r \in Requests /\ won[r] \in TokenSets
         /\ stored # NoTokens => stored \in TokenSets
<1>1. issued \in Nat /\ New = issued + 1
  BY BoundAssumption DEF TypeOK, New
<1>2. ASSUME NEW r \in Storing PROVE r \in Requests /\ hand[r] \in TokenSets
  BY <1>2 DEF TypeOK, Storing
<1>3. ASSUME NEW r \in LoggedIn PROVE r \in Requests /\ won[r] \in TokenSets
  BY <1>3 DEF TypeOK, LoggedIn
<1>4. QED
  BY <1>1, <1>2, <1>3 DEF TypeOK

LEMMA GivenToCallLedger ==
  ASSUME TypeOK, LedgerInv, NEW r \in Requests, GivenToCall(r)
  PROVE  LedgerInv'
<1>1. /\ issued \in Nat /\ New = issued + 1
      /\ \A q \in Storing : hand[q].access \in Nat /\ hand[q].access <= issued
      /\ \A q \in LoggedIn : won[q].access \in Nat /\ won[q].access <= issued
      /\ stored # NoTokens => stored.access \in Nat /\ stored.access <= issued
  BY HoldersTypes, AccessType DEF LedgerInv, NumbersKnown
<1>2. \A q \in Storing' : q = r \/ (q \in Storing /\ q # r /\ hand'[q] = hand[q])
  BY HoldersTypes DEF GivenToCall
<1>3. NumbersKnown'
  BY <1>1, <1>2 DEF GivenToCall, NumbersKnown
<1>4. NumbersApart'
  BY <1>1, <1>2 DEF GivenToCall, NumbersApart, LedgerInv
<1>5. NotYetStored'
  BY <1>1, <1>2 DEF GivenToCall, NotYetStored, LedgerInv
<1>6. QED
  BY <1>3, <1>4, <1>5 DEF LedgerInv

LEMMA GivenToLoginLedger ==
  ASSUME TypeOK, LedgerInv, NEW r \in Requests, GivenToLogin(r)
  PROVE  LedgerInv'
<1>1. /\ issued \in Nat /\ New = issued + 1
      /\ \A q \in Storing : hand[q].access \in Nat /\ hand[q].access <= issued
      /\ \A q \in LoggedIn : won[q].access \in Nat /\ won[q].access <= issued
      /\ stored # NoTokens => stored.access \in Nat /\ stored.access <= issued
  BY HoldersTypes, AccessType DEF LedgerInv, NumbersKnown
<1>2. \A q \in LoggedIn' : q = r \/ (q \in LoggedIn /\ q # r /\ won'[q] = won[q])
  BY HoldersTypes DEF GivenToLogin
<1>3. NumbersKnown'
  BY <1>1, <1>2 DEF GivenToLogin, NumbersKnown
<1>4. NumbersApart'
  BY <1>1, <1>2 DEF GivenToLogin, NumbersApart, LedgerInv
<1>5. NotYetStored'
  BY <1>1, <1>2 DEF GivenToLogin, NotYetStored, LedgerInv
<1>6. QED
  BY <1>3, <1>4, <1>5 DEF LedgerInv

LEMMA ServeGives ==
  ASSUME TypeOK, NEW r \in Requests
  PROVE  /\ ServeRefresh(r) \/ ServeAcquire(r) => GivenToCall(r)
         /\ ServeExchange(r) => GivenToLogin(r)
<1>0. /\ pc \in [Requests -> {"idle"} \cup Working] /\ flow \in [Requests -> FlowSteps]
      /\ hand \in [Requests -> TokenSets \cup {NoTokens}]
      /\ won \in [Requests -> TokenSets \cup {NoTokens}]
  BY DEF TypeOK
<1>1. ASSUME ServeRefresh(r) PROVE GivenToCall(r)
  <2>1. PICK t \in 1..MaxIssued :
          hand' = [hand EXCEPT ![r] = [access |-> New, refresh |-> t]]
    <3>1. issued < MaxIssued /\ hand[r].refresh \in 1..MaxIssued
      BY <1>1 DEF ServeRefresh, Issue, Alive, TypeOK
    <3>2. New \in 1..MaxIssued
      BY <3>1, BoundAssumption DEF New, TypeOK
    <3>3. QED
      BY <1>1, <3>1, <3>2 DEF ServeRefresh
  <2>2. [access |-> New, refresh |-> t] \in TokenSets
    BY <1>1, NewType DEF ServeRefresh, Issue
  <2>3. /\ hand'[r] \in TokenSets /\ hand'[r].access = New
        /\ \A q \in Requests : q # r => hand'[q] = hand[q]
    BY <1>0, <2>1, <2>2
  <2>4. Storing' = Storing \cup {r} /\ r \notin Storing
    BY <1>0, <1>1 DEF ServeRefresh, Goto, Storing
  <2>5. issued' = New /\ stored' = stored /\ won' = won /\ LoggedIn' = LoggedIn
    BY <1>1 DEF ServeRefresh, Issue, LoggedIn
  <2>6. QED
    BY <2>3, <2>4, <2>5 DEF GivenToCall
<1>2. ASSUME ServeAcquire(r) PROVE GivenToCall(r)
  <2>1. 0 \in 0..MaxIssued /\ issued < MaxIssued
    BY <1>2, BoundAssumption DEF ServeAcquire, Issue
  <2>2. /\ hand'[r] = [access |-> New, refresh |-> 0]
        /\ \A q \in Requests : q # r => hand'[q] = hand[q]
    BY <1>0, <1>2 DEF ServeAcquire
  <2>3. hand'[r] \in TokenSets /\ hand'[r].access = New
    BY <2>1, <2>2, NewType
  <2>4. Storing' = Storing \cup {r} /\ r \notin Storing
    BY <1>0, <1>2 DEF ServeAcquire, Goto, Storing
  <2>5. issued' = New /\ stored' = stored /\ won' = won /\ LoggedIn' = LoggedIn
    BY <1>2 DEF ServeAcquire, Issue, LoggedIn
  <2>6. QED
    BY <2>2, <2>3, <2>4, <2>5 DEF GivenToCall
<1>3. ASSUME ServeExchange(r) PROVE GivenToLogin(r)
  <2>1. PICK new \in {0, New} : won' = [won EXCEPT ![r] = [access |-> New, refresh |-> new]]
    BY <1>3 DEF ServeExchange
  <2>2. 0 \in 0..MaxIssued /\ issued < MaxIssued
    BY <1>3, BoundAssumption DEF ServeExchange, Issue
  <2>3. New \in 0..MaxIssued
    BY <2>2, NewType
  <2>4. /\ won'[r] = [access |-> New, refresh |-> new]
        /\ \A q \in Requests : q # r => won'[q] = won[q]
    BY <1>0, <2>1
  <2>5. won'[r] \in TokenSets /\ won'[r].access = New
    BY <2>1, <2>2, <2>3, <2>4, NewType
  <2>6. LoggedIn' = LoggedIn \cup {r} /\ r \notin LoggedIn
    BY <1>0, <1>3 DEF ServeExchange, LoggedIn
  <2>7. issued' = New /\ stored' = stored /\ hand' = hand /\ Storing' = Storing
    BY <1>3 DEF ServeExchange, Issue, Storing
  <2>8. QED
    BY <2>4, <2>5, <2>6, <2>7 DEF GivenToLogin
<1>4. QED
  BY <1>1, <1>2, <1>3

(* What is stored leaves those that are due, and its number was its own.   *)
LEMMA StoreTakes ==
  ASSUME TypeOK, NEW r \in Requests
  PROVE  /\ StoreAnswer(r) =>
              /\ issued' = issued /\ hand' = hand /\ won' = won /\ LoggedIn' = LoggedIn
              /\ r \in Storing /\ Storing' = Storing \ {r} /\ stored' = hand[r]
         /\ StoreLogin(r) =>
              /\ issued' = issued /\ Storing' = Storing
              /\ \A q \in Storing : hand'[q] = hand[q]
              /\ r \in LoggedIn /\ LoggedIn' = LoggedIn \ {r} /\ stored' = won[r]
              /\ \A q \in Requests : q # r => won'[q] = won[q]
<1>0. /\ pc \in [Requests -> {"idle"} \cup Working] /\ flow \in [Requests -> FlowSteps]
      /\ hand \in [Requests -> TokenSets \cup {NoTokens}]
      /\ won \in [Requests -> TokenSets \cup {NoTokens}]
  BY DEF TypeOK
<1>1. ASSUME StoreAnswer(r)
      PROVE  /\ issued' = issued /\ hand' = hand /\ won' = won /\ LoggedIn' = LoggedIn
             /\ r \in Storing /\ Storing' = Storing \ {r} /\ stored' = hand[r]
  BY <1>0, <1>1 DEF StoreAnswer, Goto, Storing, LoggedIn, idpVars
<1>2. ASSUME StoreLogin(r)
      PROVE  /\ issued' = issued /\ Storing' = Storing
             /\ \A q \in Storing : hand'[q] = hand[q]
             /\ r \in LoggedIn /\ LoggedIn' = LoggedIn \ {r} /\ stored' = won[r]
             /\ \A q \in Requests : q # r => won'[q] = won[q]
  <2>1. issued' = issued /\ stored' = won[r] /\ flow[r] = "exchanged"
    BY <1>2 DEF StoreLogin, idpVars
  <2>2. /\ r \in LoggedIn /\ LoggedIn' = LoggedIn \ {r}
        /\ \A q \in Requests : q # r => won'[q] = won[q]
    BY <1>0, <1>2 DEF StoreLogin, LoggedIn
  <2>3. CASE pc[r] = "login"
    BY <1>0, <1>2, <2>1, <2>2, <2>3 DEF StoreLogin, Goto, Storing
  <2>4. CASE pc[r] # "login"
    BY <1>0, <1>2, <2>1, <2>2, <2>4 DEF StoreLogin, Storing
  <2>5. QED
    BY <2>3, <2>4
<1>3. QED
  BY <1>1, <1>2

LEMMA StoreLedger ==
  ASSUME TypeOK, LedgerInv, NEW r \in Requests, StoreAnswer(r) \/ StoreLogin(r)
  PROVE  LedgerInv'
<1>1. CASE StoreAnswer(r)
  BY <1>1, StoreTakes DEF LedgerInv, NumbersKnown, NumbersApart, NotYetStored
<1>2. CASE StoreLogin(r)
  BY <1>2, StoreTakes, HoldersTypes DEF LedgerInv, NumbersKnown, NumbersApart, NotYetStored
<1>3. QED
  BY <1>1, <1>2

(* Reading and revoking concern no token set that is due.                  *)
LEMMA ReadRevokeLedger ==
  ASSUME TypeOK, LedgerInv, Revoke \/ \E r \in Requests : Read(r)
  PROVE  LedgerInv'
<1>1. CASE Revoke
  <2>1. UNCHANGED <<stored, issued, pc, hand, flow, won>>
    BY <1>1, Zenon DEF Revoke, processVars
  <2>2. QED
    BY <2>1 DEF LedgerInv, NumbersKnown, NumbersApart, NotYetStored, Storing, LoggedIn
<1>2. ASSUME NEW r \in Requests, Read(r) PROVE LedgerInv'
  <2>1. /\ UNCHANGED <<stored, issued, flow, won>> /\ Storing' = Storing
        /\ LoggedIn' = LoggedIn /\ \A q \in Storing : hand'[q] = hand[q]
    BY <1>2 DEF Read, Goto, idpVars, TypeOK, Storing, LoggedIn
  <2>2. QED
    BY <2>1 DEF LedgerInv, NumbersKnown, NumbersApart, NotYetStored
<1>3. QED
  BY <1>1, <1>2

LEMMA NextLedger == TypeOK /\ LedgerInv /\ [Next]_vars => LedgerInv'
<1> SUFFICES ASSUME TypeOK, LedgerInv, [Next]_vars PROVE LedgerInv'
  OBVIOUS
<1>1. ASSUME NEW r \in Requests, CallStep(r) \/ Read(r) \/ Cancel(r) PROVE LedgerInv'
  BY <1>1, CallGainsNothing, NothingGainedLedger, ReadRevokeLedger, ServeGives,
     GivenToCallLedger, StoreLedger, Zenon DEF CallStep
<1>2. ASSUME NEW r \in Requests, FlowStep(r) PROVE LedgerInv'
  BY <1>2, FlowGainsNothing, NothingGainedLedger, ServeGives, GivenToLoginLedger,
     StoreLedger, Zenon DEF FlowStep
<1>3. QED
  BY <1>1, <1>2, EnvironmentGainsNothing, NothingGainedLedger, ReadRevokeLedger, Zenon
     DEF Next

(* What each call goes by, it has just taken from the storage, or it goes  *)
(* by it still.                                                            *)
GoesBy == {"read"} \cup InTool

LendsStored ==
  \A c \in Requests : pc'[c] \in GoesBy =>
    hand'[c] = stored' \/ (pc[c] \in GoesBy /\ hand'[c] = hand[c])

LEMMA LendsStoredLends == LendsStored => Ledger!Lend
<1> SUFFICES ASSUME LendsStored, NEW c \in Requests
             PROVE  Lent'[c] \in {Lent[c], stored', NoTokens}
  BY DEF Ledger!Lend
<1>1. CASE pc'[c] \in GoesBy
  BY <1>1 DEF LendsStored, Lent, GoesBy
<1>2. CASE pc'[c] \notin GoesBy
  BY <1>2 DEF Lent, GoesBy
<1>3. QED
  BY <1>1, <1>2

LEMMA CallLends ==
  ASSUME TypeOK, NEW r \in Requests, Read(r) \/ CallStep(r) \/ Cancel(r)
  PROVE  LendsStored
<1>0. /\ pc \in [Requests -> {"idle"} \cup Working]
      /\ hand \in [Requests -> TokenSets \cup {NoTokens}]
  BY DEF TypeOK
<1>1. \A q \in Requests : q # r => pc'[q] = pc[q] /\ hand'[q] = hand[q]
  BY <1>0 DEF Read, CallStep, Cancel, UseStored, NothingStored, DecideExpired, Drop,
         ServeRefresh, RejectRefresh, ServeAcquire, TokenRequestFails, StoreAnswer,
         StorageRaises, ToolReturns, ToolRaises, BeginLogin, Goto, Answer
<1>2. CASE Read(r) \/ UseStored(r) \/ StoreAnswer(r)
  <2>1. pc'[r] \in GoesBy => hand'[r] = stored' \/ (pc[r] \in GoesBy /\ hand'[r] = hand[r])
    BY <1>0, <1>2 DEF Read, UseStored, StoreAnswer, Goto, GoesBy
  <2>2. QED
    BY <1>1, <2>1 DEF LendsStored
<1>3. CASE \/ NothingStored(r) \/ DecideExpired(r) \/ Drop(r) \/ ServeRefresh(r)
           \/ RejectRefresh(r) \/ ServeAcquire(r) \/ TokenRequestFails(r)
           \/ StorageRaises(r) \/ ToolReturns(r) \/ ToolRaises(r) \/ Cancel(r)
  <2>1. pc'[r] \notin GoesBy
    BY <1>0, <1>3 DEF NothingStored, DecideExpired, Drop, ServeRefresh, RejectRefresh,
           ServeAcquire, TokenRequestFails, StorageRaises, ToolReturns, ToolRaises,
           Cancel, BeginLogin, Goto, Answer, GoesBy, InTool
  <2>2. QED
    BY <1>1, <2>1 DEF LendsStored
<1>4. QED
  BY <1>2, <1>3 DEF CallStep

LEMMA FlowLends ==
  ASSUME TypeOK, NEW r \in Requests, FlowStep(r)
  PROVE  LendsStored
<1>0. /\ pc \in [Requests -> {"idle"} \cup Working]
      /\ hand \in [Requests -> TokenSets \cup {NoTokens}]
  BY DEF TypeOK
<1>1. CASE StoreLogin(r)
  BY <1>0, <1>1 DEF StoreLogin, Goto, LendsStored
<1>2. CASE \/ Discover(r) \/ DiscoveryFails(r) \/ Listen(r) \/ PortInUse(r)
           \/ SelfTestFails(r) \/ CallbackArrives(r) \/ CallbackFails(r)
           \/ ServeExchange(r) \/ ExchangeFails(r)
  <2>1. \A q \in Requests : pc'[q] = "idle" \/ (pc'[q] = pc[q] /\ hand'[q] = hand[q])
    BY <1>0, <1>2 DEF Discover, DiscoveryFails, Listen, PortInUse, SelfTestFails,
           CallbackArrives, CallbackFails, ServeExchange, ExchangeFails, FlowFails, Answer
  <2>2. QED
    BY <2>1 DEF LendsStored, GoesBy, InTool
<1>3. QED
  BY <1>1, <1>2 DEF FlowStep

LEMMA NextLends == TypeOK /\ [Next]_vars => Ledger!Lend
<1> SUFFICES ASSUME TypeOK, [Next]_vars PROVE LendsStored
  BY LendsStoredLends
<1>1. CASE Restart
  BY <1>1 DEF Restart, LendsStored, GoesBy, InTool
<1>2. CASE StuckListenerStops \/ Expire \/ Revoke \/ UNCHANGED vars
  <2>1. pc' = pc /\ hand' = hand
    BY <1>2, Zenon DEF StuckListenerStops, Expire, Revoke, vars, processVars
  <2>2. QED
    BY <2>1 DEF LendsStored
<1>3. QED
  BY <1>1, <1>2, CallLends, FlowLends, Zenon DEF Next

-----------------------------------------------------------------------------
(* What becomes of those that are due.                                     *)

LEMMA NothingGainedDue == NothingGained => Due' \subseteq Due
<1> SUFFICES ASSUME NothingGained PROVE Due' \subseteq Due
  OBVIOUS
<1>1. /\ \A r \in Storing' : r \in Storing /\ hand'[r] = hand[r]
      /\ \A r \in LoggedIn' : r \in LoggedIn /\ won'[r] = won[r]
  BY DEF NothingGained, Storing, LoggedIn
<1>2. QED
  BY <1>1 DEF Due

(* A deletion is no loss.                                                  *)
LEMMA DropDeletes ==
  ASSUME TypeOK, PortInv, NEW r \in Requests, Drop(r)
  PROVE  Ledger!Delete
<1>0. /\ pc \in [Requests -> {"idle"} \cup Working] /\ flow \in [Requests -> FlowSteps]
      /\ hand \in [Requests -> TokenSets \cup {NoTokens}]
  BY DEF TypeOK
<1>1. stored' = NoTokens /\ issued' = issued /\ won' = won
  BY DEF Drop, idpVars
<1>2. flow[r] = "none"
  BY DEF Drop, PortInv, NoLoginBesides
<1>3. Storing' = Storing /\ \A q \in Storing : hand'[q] = hand[q]
  BY <1>0 DEF Drop, BeginLogin, Goto, Answer, Storing
<1>4. LoggedIn' = LoggedIn
  BY <1>0, <1>2 DEF Drop, BeginLogin, LoggedIn
<1>5. QED
  BY <1>1, <1>3, <1>4 DEF Ledger!Delete, Due

LEMMA GivenIssues ==
  ASSUME TypeOK, NEW r \in Requests, GivenToCall(r) \/ GivenToLogin(r)
  PROVE  Ledger!Issue
<1>1. CASE GivenToCall(r)
  <2>1. Due' = Due \cup {hand'[r]}
    BY <1>1, HoldersTypes DEF GivenToCall, Due
  <2>2. QED
    BY <1>1, <2>1, HoldersTypes DEF GivenToCall, Ledger!Issue
<1>2. CASE GivenToLogin(r)
  <2>1. Due' = Due \cup {won'[r]}
    BY <1>2, HoldersTypes DEF GivenToLogin, Due
  <2>2. QED
    BY <1>2, <2>1, HoldersTypes DEF GivenToLogin, Ledger!Issue
<1>3. QED
  BY <1>1, <1>2

(* Since no two are alike, the one that is stored leaves nothing behind.   *)
LEMMA StoreStores ==
  ASSUME TypeOK, LedgerInv, NEW r \in Requests, StoreAnswer(r) \/ StoreLogin(r)
  PROVE  Ledger!Store
<1>1. CASE StoreAnswer(r)
  <2>1. stored' \in Due /\ issued' = issued
    BY <1>1, StoreTakes DEF Due
  <2>2. Due' = Due \ {stored'}
    BY <1>1, StoreTakes DEF Due, LedgerInv, NumbersApart
  <2>3. QED
    BY <2>1, <2>2 DEF Ledger!Store
<1>2. CASE StoreLogin(r)
  <2>1. stored' \in Due /\ issued' = issued
    BY <1>2, StoreTakes DEF Due
  <2>2. Due' = Due \ {stored'}
    BY <1>2, StoreTakes, HoldersTypes DEF Due, LedgerInv, NumbersApart
  <2>3. QED
    BY <2>1, <2>2 DEF Ledger!Store
<1>3. QED
  BY <1>1, <1>2

(* Every other step loses something, or nothing.                           *)
LEMMA OthersLose ==
  ASSUME TypeOK, [Next]_vars,
         ~ \E r \in Requests :
             \/ Drop(r) \/ ServeRefresh(r) \/ ServeAcquire(r) \/ ServeExchange(r)
             \/ StoreAnswer(r) \/ StoreLogin(r)
  PROVE  Ledger!Lose
<1>1. CASE Revoke \/ \E r \in Requests : Read(r)
  <2>1. CASE Revoke
    <3>1. UNCHANGED <<stored, issued, pc, hand, flow, won>>
      BY <2>1, Zenon DEF Revoke, processVars
    <3>2. QED
      BY <3>1 DEF Ledger!Lose, Due, Storing, LoggedIn
  <2>2. ASSUME NEW r \in Requests, Read(r) PROVE Ledger!Lose
    <3>1. /\ UNCHANGED <<stored, issued, flow, won>> /\ Storing' = Storing
          /\ LoggedIn' = LoggedIn /\ \A q \in Storing : hand'[q] = hand[q]
      BY <2>2 DEF Read, Goto, idpVars, TypeOK, Storing, LoggedIn
    <3>2. QED
      BY <3>1 DEF Ledger!Lose, Due
  <2>3. QED
    BY <1>1, <2>1, <2>2
<1>2. CASE ~Revoke /\ ~ \E r \in Requests : Read(r)
  <2>1. NothingGained
    BY <1>2, CallGainsNothing, FlowGainsNothing, EnvironmentGainsNothing, Zenon
       DEF Next, CallStep, FlowStep
  <2>2. stored' = stored
    BY <1>2 DEF Next, CallStep, FlowStep, UseStored, NothingStored, DecideExpired,
       RejectRefresh, TokenRequestFails, StorageRaises, ToolReturns, ToolRaises, Cancel,
       Discover, DiscoveryFails, Listen, PortInUse, SelfTestFails, CallbackArrives,
       CallbackFails, ExchangeFails, StuckListenerStops, Restart, Expire, vars
  <2>3. QED
    BY <2>1, <2>2, NothingGainedDue DEF NothingGained, Ledger!Lose
<1>3. QED
  BY <1>1, <1>2

LEMMA LedgerStep ==
  ASSUME TypeOK, PortInv, LedgerInv, [Next]_vars
  PROVE  Ledger!Next
<1>1. Ledger!Lend
  BY NextLends
<1>2. Ledger!Issue \/ Ledger!Store \/ Ledger!Delete \/ Ledger!Lose
  BY DropDeletes, ServeGives, GivenIssues, StoreStores, OthersLose, Zenon
<1>3. QED
  BY <1>1, <1>2 DEF Ledger!Next

(* Authentication implements the ledger: every token set is stored once or *)
(* never, what is replaced or deleted does not come back, and a tool runs  *)
(* with what was in the storage while its call was there                   *)
(* (AuthenticationMiddleware.__call__, _handle_refresh, _do_oauth_flow).   *)
THEOREM LifecycleIsALedger == Spec => LedgerSpec
<1>1. Init => Ledger!Init
  BY DEF Init, Ledger!Init, Due, Lent, Storing, LoggedIn, InTool
<1>2. Spec => [](TypeOK /\ PortInv /\ LedgerInv)
  BY InitTypeOK, NextTypeOK, InitPort, NextPort, InitLedger, NextLedger, PTL DEF Spec
<1>3. TypeOK /\ PortInv /\ LedgerInv /\ [Next]_vars => [Ledger!Next]_Ledger!vars
  BY LedgerStep
<1>4. QED
  BY <1>1, <1>2, <1>3, PTL DEF Spec, LedgerSpec, Ledger!Spec

(* A token set that has been issued, and is neither stored nor about to be.*)
Gone(t) == t.access <= issued /\ t \notin Due /\ stored # t

(* What leaves the storage, replaced by a later login or refresh or        *)
(* deleted by a call, is gone (TokenStorage.store and delete, as the       *)
(* middleware calls them).                                                 *)
THEOREM ReplacedIsGone ==
  Spec => [][\A t \in TokenSets : stored = t /\ stored' # t => Gone(t)']_vars
<1>1. ASSUME TypeOK, PortInv, LedgerInv, [Next]_vars, NEW t \in TokenSets,
             stored = t, stored' # t
      PROVE  Gone(t)'
  <2>1. t # NoTokens /\ t.access <= issued /\ t.access \in Nat /\ issued \in Nat
    BY <1>1, AccessType, HoldersTypes DEF LedgerInv, NumbersKnown
  <2>2. t \notin Due
    BY <1>1, <2>1 DEF LedgerInv, NotYetStored, Due
  <2>3. Ledger!Store \/ Ledger!Delete
    BY <1>1, LedgerStep DEF Ledger!Next, Ledger!Keep, Ledger!Issue, Ledger!Lose
  <2>4. QED
    BY <1>1, <2>1, <2>2, <2>3 DEF Ledger!Store, Ledger!Delete, Gone
<1>2. Spec => [](TypeOK /\ PortInv /\ LedgerInv)
  BY InitTypeOK, NextTypeOK, InitPort, NextPort, InitLedger, NextLedger, PTL DEF Spec
<1>3. TypeOK /\ PortInv /\ LedgerInv /\ [Next]_vars
        => [\A t \in TokenSets : stored = t /\ stored' # t => Gone(t)']_vars
  BY <1>1
<1>4. QED
  BY <1>2, <1>3, PTL DEF Spec

(* And it stays so: no call that is late, has failed or is restarted       *)
(* brings a token set back that another has replaced or deleted.           *)
THEOREM GoneForGood ==
  ASSUME NEW t \in TokenSets
  PROVE  Spec => [](Gone(t) => []Gone(t))
<1>1. TypeOK /\ PortInv /\ LedgerInv /\ Gone(t) /\ [Next]_vars => Gone(t)'
  <2> SUFFICES ASSUME TypeOK, PortInv, LedgerInv, Gone(t), [Next]_vars PROVE Gone(t)'
    OBVIOUS
  <2>1. Ledger!Next /\ t.access \in Nat /\ issued \in Nat /\ t # NoTokens
    BY LedgerStep, AccessType, HoldersTypes
  <2>2. QED
    BY <2>1 DEF Gone, Ledger!Next, Ledger!Keep, Ledger!Issue, Ledger!Store,
       Ledger!Delete, Ledger!Lose
<1>2. Spec => [](TypeOK /\ PortInv /\ LedgerInv)
  BY InitTypeOK, NextTypeOK, InitPort, NextPort, InitLedger, NextLedger, PTL DEF Spec
<1>3. QED
  BY <1>1, <1>2, PTL DEF Spec

-----------------------------------------------------------------------------
(* Why every call is answered.  That it can always do its next step, and   *)
(* does, is left to fairness; but no step leads back, and what a call      *)
(* waits for is under way.                                                 *)

LoginSteps(step) ==
  CASE step = "starting" -> 5 [] step = "discovering" -> 4 [] step = "waiting" -> 3
    [] step = "exchanging" -> 2 [] step = "exchanged" -> 1 [] OTHER -> 0

(* The most steps that a call has left to its answer.                      *)
StepsLeft(r) ==
  CASE pc[r] = "read" -> 9
    [] pc[r] = "drop_login" -> 8
    [] pc[r] = "login" -> 2 + LoginSteps(flow[r])
    [] pc[r] = "drop_acquire" -> 5
    [] pc[r] \in {"refreshing", "acquiring"} -> 4
    [] pc[r] \in {"refreshed", "acquired"} -> 3
    [] pc[r] = "tool_refreshed" -> 2
    [] pc[r] \in {"drop_fail", "tool", "tool_acquired", "tool_login"} -> 1
    [] OTHER -> 0

(* A step of the call itself, or of the login it waits for.                *)
OwnStep(r) == CallStep(r) \/ (pc[r] = "login" /\ FlowStep(r))

NearsItsEnd(r) ==
  /\ OwnStep(r) => StepsLeft(r)' < StepsLeft(r)
  /\ ~Read(r) => StepsLeft(r)' <= StepsLeft(r)

LoginUnderWay == \A r \in Requests : pc[r] = "login" => flow[r] # "none"

(* The number depends on the call's own variables alone.                   *)
LEMMA StepsLeftNat ==
  ASSUME NEW r \in Requests PROVE StepsLeft(r) \in 0..9 /\ StepsLeft(r)' \in 0..9
BY DEF StepsLeft, LoginSteps

LEMMA OthersKeepTheirs ==
  ASSUME NEW q \in Requests, pc'[q] = pc[q], flow'[q] = flow[q]
  PROVE  StepsLeft(q)' = StepsLeft(q)
BY DEF StepsLeft, LoginSteps

(* Whoever is answered has none left.                                      *)
LEMMA AnsweredHasNone ==
  ASSUME NEW q \in Requests, pc'[q] = "idle" PROVE StepsLeft(q)' = 0
BY DEF StepsLeft

LEMMA CallNears ==
  ASSUME TypeOK, NEW r \in Requests, CallStep(r)
  PROVE  /\ StepsLeft(r)' < StepsLeft(r)
         /\ \A q \in Requests : q # r => pc'[q] = pc[q] /\ flow'[q] = flow[q]
<1>0. /\ pc \in [Requests -> {"idle"} \cup Working] /\ flow \in [Requests -> FlowSteps]
      /\ hand \in [Requests -> TokenSets \cup {NoTokens}]
  BY DEF TypeOK
<1>1. \A q \in Requests : q # r => pc'[q] = pc[q] /\ flow'[q] = flow[q]
  BY <1>0 DEF CallStep, UseStored, NothingStored, DecideExpired, Drop, ServeRefresh,
         RejectRefresh, ServeAcquire, TokenRequestFails, StoreAnswer, StorageRaises,
         ToolReturns, ToolRaises, BeginLogin, Goto, Answer
<1>2. CASE UseStored(r) \/ ServeRefresh(r) \/ ServeAcquire(r) \/ StoreAnswer(r)
  BY <1>0, <1>1, <1>2 DEF UseStored, ServeRefresh, ServeAcquire, StoreAnswer, Goto,
         StepsLeft
<1>3. CASE NothingStored(r) \/ DecideExpired(r) \/ Drop(r)
  <2>1. \/ pc[r] = "read" /\ pc'[r] \in {"acquiring", "drop_acquire", "drop_login",
                                         "refreshing", "drop_fail"}
        \/ pc[r] \in {"read", "drop_login"} /\ pc'[r] = "login" /\ flow'[r] = "starting"
        \/ pc[r] = "drop_acquire" /\ pc'[r] = "acquiring"
        \/ pc[r] = "drop_fail" /\ pc'[r] = "idle"
    BY <1>0, <1>3 DEF NothingStored, DecideExpired, Drop, BeginLogin, Goto, Answer
  <2>2. QED
    BY <1>1, <2>1 DEF StepsLeft, LoginSteps
<1>4. CASE RejectRefresh(r) \/ TokenRequestFails(r) \/ StorageRaises(r) \/ ToolReturns(r)
  <2>1. pc'[r] = "idle" /\ pc[r] \in {"refreshing", "refreshed", "acquiring", "acquired",
          "drop_login", "drop_acquire", "drop_fail", "tool", "tool_refreshed",
          "tool_acquired", "tool_login"}
    BY <1>0, <1>4 DEF RejectRefresh, TokenRequestFails, StorageRaises, ToolReturns,
           Answer, InTool
  <2>2. QED
    BY <1>1, <2>1 DEF StepsLeft, LoginSteps
<1>5. CASE ToolRaises(r)
  <2>1. \/ pc[r] \in InTool /\ pc'[r] = "idle"
        \/ pc[r] = "tool_refreshed" /\ pc'[r] = "drop_fail"
    BY <1>0, <1>5 DEF ToolRaises, Goto, Answer
  <2>2. QED
    BY <1>1, <2>1 DEF StepsLeft, LoginSteps, InTool
<1>6. QED
  BY <1>1, <1>2, <1>3, <1>4, <1>5 DEF CallStep

LEMMA FlowNears ==
  ASSUME TypeOK, NEW r \in Requests, FlowStep(r)
  PROVE  /\ pc[r] = "login" => StepsLeft(r)' < StepsLeft(r)
         /\ StepsLeft(r)' <= StepsLeft(r)
         /\ \A q \in Requests : q # r => pc'[q] = pc[q] /\ flow'[q] = flow[q]
<1>0. /\ pc \in [Requests -> {"idle"} \cup Working] /\ flow \in [Requests -> FlowSteps]
  BY DEF TypeOK
<1>1. \A q \in Requests : q # r => pc'[q] = pc[q] /\ flow'[q] = flow[q]
  BY <1>0 DEF FlowStep, Discover, DiscoveryFails, Listen, PortInUse, SelfTestFails,
         CallbackArrives, CallbackFails, ServeExchange, ExchangeFails, StoreLogin,
         HasEndpoints, FlowFails, Answer, Goto
<1>2. \/ pc'[r] = pc[r] /\ LoginSteps(flow'[r]) < LoginSteps(flow[r])
      \/ pc[r] = "login" /\ pc'[r] \in {"idle", "tool_login"}
      \/ pc[r] # "login" /\ pc'[r] = pc[r]
  <2>1. CASE Discover(r) \/ Listen(r) \/ CallbackArrives(r) \/ ServeExchange(r)
    BY <1>0, <2>1 DEF Discover, Listen, CallbackArrives, ServeExchange, HasEndpoints,
           LoginSteps
  <2>2. CASE \/ DiscoveryFails(r) \/ PortInUse(r) \/ SelfTestFails(r)
             \/ CallbackFails(r) \/ ExchangeFails(r)
    BY <1>0, <2>2 DEF DiscoveryFails, PortInUse, SelfTestFails, CallbackFails,
           ExchangeFails, FlowFails, Answer
  <2>3. CASE StoreLogin(r)
    BY <1>0, <2>3 DEF StoreLogin, Goto
  <2>4. QED
    BY <2>1, <2>2, <2>3 DEF FlowStep
<1>3. QED
  BY <1>1, <1>2 DEF StepsLeft, LoginSteps

(* A call is answered after nine steps of its own at most, and no step of  *)
(* another call, of the provider or of time takes it back: no retry, race  *)
(* or failure makes it go round in circles                                 *)
(* (AuthenticationMiddleware.__call__).                                    *)
THEOREM CallsNearTheirEnd == Spec => [][\A r \in Requests : NearsItsEnd(r)]_vars
<1>1. ASSUME TypeOK, [Next]_vars, NEW r \in Requests PROVE NearsItsEnd(r) \/ UNCHANGED vars
  <2>1. OwnStep(r) => StepsLeft(r)' < StepsLeft(r)
    BY <1>1, CallNears, FlowNears, Zenon DEF OwnStep
  <2>2. ASSUME ~Read(r) PROVE StepsLeft(r)' <= StepsLeft(r)
    <3>1. ASSUME NEW q \in Requests, q # r,
                 Read(q) \/ CallStep(q) \/ FlowStep(q) \/ Cancel(q)
          PROVE  pc'[r] = pc[r] /\ flow'[r] = flow[r]
      <4>1. CASE CallStep(q) \/ FlowStep(q)
        BY <1>1, <3>1, <4>1, CallNears, FlowNears
      <4>2. CASE Read(q) \/ Cancel(q)
        BY <1>1, <3>1, <4>2 DEF Read, Cancel, Goto, Answer, TypeOK
      <4>3. QED
        BY <3>1, <4>1, <4>2
    <3>2. CASE CallStep(r) \/ FlowStep(r)
      <4>1. StepsLeft(r)' < StepsLeft(r) \/ StepsLeft(r)' <= StepsLeft(r)
        BY <1>1, <3>2, CallNears, FlowNears, Zenon
      <4>2. QED
        BY <4>1, StepsLeftNat
    <3>3. CASE Cancel(r) \/ Restart
      <4>1. pc'[r] = "idle"
        BY <1>1, <3>3 DEF Cancel, Restart, Answer, TypeOK
      <4>2. QED
        BY <4>1, AnsweredHasNone, StepsLeftNat
    <3>4. CASE StuckListenerStops \/ Expire \/ Revoke \/ UNCHANGED vars
      <4>1. pc'[r] = pc[r] /\ flow'[r] = flow[r]
        BY <3>4 DEF StuckListenerStops, Expire, Revoke, vars, processVars
      <4>2. QED
        BY <4>1, OthersKeepTheirs, StepsLeftNat
    <3>5. CASE \E q \in Requests : q # r /\ (Read(q) \/ CallStep(q) \/ FlowStep(q) \/ Cancel(q))
      BY <3>1, <3>5, OthersKeepTheirs, StepsLeftNat
    <3>6. QED
      BY <1>1, <2>2, <3>2, <3>3, <3>4, <3>5, Zenon DEF Next
  <2>3. QED
    BY <2>1, <2>2 DEF NearsItsEnd
<1>2. TypeOK /\ [Next]_vars => [\A r \in Requests : NearsItsEnd(r)]_vars
  BY <1>1
<1>3. QED
  BY <1>2, TypeInvariant, PTL DEF Spec

(* A call that waits for its login has one under way: however the login    *)
(* ends, the call is told (_do_oauth_flow, which initiate_flow shields).   *)
THEOREM LoginsUnderWay == Spec => []LoginUnderWay
<1>1. Init => LoginUnderWay
  BY DEF Init, LoginUnderWay
<1>2. TypeOK /\ LoginUnderWay /\ [Next]_vars => LoginUnderWay'
  <2> SUFFICES ASSUME TypeOK, LoginUnderWay, [Next]_vars PROVE LoginUnderWay'
    OBVIOUS
  <2>0. pc \in [Requests -> {"idle"} \cup Working] /\ flow \in [Requests -> FlowSteps]
    BY DEF TypeOK
  <2>1. ASSUME NEW r \in Requests, CallStep(r) PROVE LoginUnderWay'
    <3>1. pc'[r] = "login" => flow'[r] = "starting"
      BY <2>0, <2>1 DEF CallStep, UseStored, NothingStored, DecideExpired, Drop,
             ServeRefresh, RejectRefresh, ServeAcquire, TokenRequestFails, StoreAnswer,
             StorageRaises, ToolReturns, ToolRaises, BeginLogin, Goto, Answer
    <3>2. QED
      BY <2>1, <3>1, CallNears DEF LoginUnderWay
  <2>2. ASSUME NEW r \in Requests, FlowStep(r) PROVE LoginUnderWay'
    <3>1. pc'[r] = "login" => flow'[r] # "none"
      BY <2>0, <2>2 DEF FlowStep, Discover, DiscoveryFails, Listen, PortInUse,
             SelfTestFails, CallbackArrives, CallbackFails, ServeExchange, ExchangeFails,
             StoreLogin, HasEndpoints, FlowFails, Answer, Goto
    <3>2. QED
      BY <2>2, <3>1, FlowNears DEF LoginUnderWay
  <2>3. ASSUME NEW r \in Requests, Read(r) \/ Cancel(r) PROVE LoginUnderWay'
    BY <2>0, <2>3 DEF Read, Cancel, Goto, Answer, LoginUnderWay
  <2>4. CASE Restart
    BY <2>4 DEF Restart, LoginUnderWay
  <2>5. CASE StuckListenerStops \/ Expire \/ Revoke \/ UNCHANGED vars
    BY <2>5 DEF StuckListenerStops, Expire, Revoke, vars, processVars, LoginUnderWay
  <2>6. QED
    BY <2>1, <2>2, <2>3, <2>4, <2>5, Zenon DEF Next
<1>3. QED
  BY <1>1, <1>2, TypeInvariant, PTL DEF Spec
=============================================================================
