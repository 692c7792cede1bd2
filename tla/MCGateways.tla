------------------------------ MODULE MCGateways ------------------------------
(* One instance of the four modules that share nothing: a behaviour chooses one *)
(* of them, or one half of Notices, and the others wait in an initial state.    *)
EXTENDS Relays, Calls, Notices, AppConfig

VARIABLE moves      \* the part that moves
parts == <<relayVars, callVars, noticeVars, confVars, moves>>

OneHandler == {SetCarpintero}

Rest(vs) == UNCHANGED <<vs, moves>>
RelayMoves == RelayNext /\ Rest(<<callVars, noticeVars, confVars>>)
CallMoves == CallNext /\ Rest(<<relayVars, noticeVars, confVars>>)
SettingsMove == SettingsNext /\ Rest(<<relayVars, callVars, confVars>>)
InstantMoves == InstantNext /\ Rest(<<relayVars, callVars, confVars>>)
ConfMoves == ConfNext /\ Rest(<<relayVars, callVars, noticeVars>>)

Alone(part) == moves = part
AtRest ==
    /\ relay = payTariff
    /\ stage = "done"
    /\ peer = [s \in Sides |-> TRUE]
    /\ conn = [s \in Sides |-> "none"]
    /\ pump = [p \in Both |-> "off"]
FirstStart == gen = 1 /\ ~legacyEnv /\ deployed = CHOOSE k \in AppMasterKeys : TRUE
GatewayInit ==
    /\ moves \in {"relay", "call", "settings", "instant", "conf"}
    /\ IF Alone("relay") THEN RelayInit ELSE AtRest
    /\ CallInit
    /\ NoticeInit
    /\ ConfInit
    /\ Alone("conf") \/ FirstStart
GatewayNext ==
    \/ Alone("relay") /\ RelayMoves
    \/ Alone("call") /\ CallMoves
    \/ Alone("settings") /\ SettingsMove
    \/ Alone("instant") /\ InstantMoves
    \/ Alone("conf") /\ ConfMoves

GatewaySpec == GatewayInit /\ [][GatewayNext]_parts /\ RelayFairness

GatewayTypeOK == RelayTypeOK /\ CallTypeOK /\ NoticeTypeOK /\ ConfTypeOK
===============================================================================
