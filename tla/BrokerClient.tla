---------------------------- MODULE BrokerClient ----------------------------
(***************************************************************************)
(* The BrokerClient of one process: its robust connection, and the         *)
(* dictionary of exchanges that publish looks a name up in.  connect fills *)
(* the dictionary one declaration at a time; after a reconnect             *)
(* _on_reconnect empties it and fills it again, while the process goes on  *)
(* publishing.                                                             *)
(***************************************************************************)
EXTENDS Naturals, Sequences

CONSTANT ExchangeNames     \* in the order of setup_exchanges

ASSUME NamesAssumption == ExchangeNames \in Seq(STRING) \ {<< >>}

VARIABLES
    link,          \* the connection: "none" before connect, "up" or "down"
    started,       \* connect has returned
    exchanges,     \* the names in the dictionary
    phase,         \* of its setup: "qos", "declare", or "idle" when none is under way
    declaring      \* index of the exchange to declare next

clientVars == <<link, started, exchanges, phase, declaring>>

Names == {ExchangeNames[i] : i \in DOMAIN ExchangeNames}

ClientInit ==
    /\ link = "none"
    /\ started = FALSE
    /\ exchanges = {}
    /\ phase = "idle"
    /\ declaring = 1

ClientTypeOK ==
    /\ link \in {"none", "up", "down"}
    /\ started \in BOOLEAN
    /\ exchanges \subseteq Names
    /\ phase \in {"qos", "declare", "idle"}
    /\ declaring \in DOMAIN ExchangeNames

(* publish finds the exchange; otherwise it raises a RuntimeError or a     *)
(* KeyError.                                                               *)
CanPublish(name) == started /\ name \in exchanges

Setup(p) == phase' = p /\ declaring' = 1

Connect ==
    /\ link = "none"
    /\ link' = "up"
    /\ Setup("declare")
    /\ UNCHANGED <<started, exchanges>>

(* A slip in DeclareExchange: after a reconnect the dictionary is emptied  *)
(* last.                                                                   *)
DeclareThenClear ==
    /\ phase = "declare"
    /\ IF declaring < Len(ExchangeNames)
       THEN /\ exchanges' = exchanges \cup {ExchangeNames[declaring]}
            /\ declaring' = declaring + 1
            /\ UNCHANGED <<phase, started>>
       ELSE /\ exchanges' = IF started THEN {} ELSE Names
            /\ Setup("idle")
            /\ started' = TRUE
    /\ UNCHANGED link

DeclareExchange ==
    /\ phase = "declare"
    /\ exchanges' = exchanges \cup {ExchangeNames[declaring]}
    /\ IF declaring < Len(ExchangeNames)
       THEN declaring' = declaring + 1 /\ UNCHANGED <<phase, started>>
       ELSE Setup("idle") /\ started' = TRUE
    /\ UNCHANGED link

(* The connection is lost, and whatever awaits an answer raises: a setup   *)
(* under _on_reconnect is left as far as it came, one under connect ends   *)
(* the process.                                                            *)
LoseLink ==
    /\ link = "up"
    /\ Setup("idle")
    /\ IF started
       THEN link' = "down" /\ UNCHANGED exchanges
       ELSE link' = "none" /\ exchanges' = {}
    /\ UNCHANGED started

(* The robust connection is back and calls _on_reconnect, which opens a    *)
(* channel and sets its prefetch.  publish still finds the old exchanges.  *)
Relink ==
    /\ link = "down"
    /\ link' = "up"
    /\ Setup("qos")
    /\ UNCHANGED <<started, exchanges>>

(* A slip in ClearExchanges: the setup is forgotten. *)
ClearOnly ==
    /\ phase = "qos"
    /\ exchanges' = {}
    /\ Setup("idle")
    /\ UNCHANGED <<link, started>>

ClearExchanges ==
    /\ phase = "qos"
    /\ exchanges' = {}
    /\ Setup("declare")
    /\ UNCHANGED <<link, started>>

(* close, or the end of the process *)
CloseClient ==
    /\ link # "none"
    /\ link' = "none"
    /\ started' = FALSE
    /\ exchanges' = {}
    /\ Setup("idle")

ClientSetup == Connect \/ DeclareExchange \/ Relink \/ ClearExchanges

(* A client that is connected and has nothing under way knows all its      *)
(* exchanges, wherever the earlier connections broke.                      *)
SetupComplete == link = "up" /\ phase = "idle" => exchanges = Names

(* Why SetupComplete is inductive: a setup runs only on a connection, and  *)
(* the exchanges before the next one are in the dictionary.                *)
SetupProgress ==
    /\ phase # "idle" => link = "up"
    /\ phase = "declare" => \A i \in 1..(declaring - 1) : ExchangeNames[i] \in exchanges

ClientInv == ClientTypeOK /\ SetupProgress /\ SetupComplete

=============================================================================
