------------------------------- MODULE Agent -------------------------------
(***************************************************************************)
(* The agent as a service: it reads its settings from the environment,     *)
(* starts, decides on each request by its API key and the address of its   *)
(* peer, and serves the requests that need nothing but an answer: ping,    *)
(* info, and the output of one command.  The administrator edits the       *)
(* environment at any time; a running agent has the settings it was        *)
(* started with.                                                           *)
(*                                                                         *)
(* A setting is abstracted to what the code tells apart.  A number is      *)
(* itself, or Garbage where the text does not parse; API_KEY is one of     *)
(* Keys where it is well formed, or BadKey; ALLOWED_IPS is the sequence of *)
(* the addresses, the spaces and the other things it is written with.      *)
(***************************************************************************)
EXTENDS Integers, Sequences

CONSTANTS Requests,      \* The requests of clients,
          Peers,         \* the addresses they come from,
          NoPeer,        \* or an address that cannot be told,
          Keys,          \* the well-formed API keys they know,
          NoKey, Binary, \* or no key, or one that is not visible ASCII.
          RandomKey,     \* The key an agent without one makes up at start.
          BadKey, Unset, Garbage, Space, Junk, NoConfig, NoRequest,
          Texts,         \* Texts[s]: what may be written for setting s.
          UsizeMax,      \* The greatest usize.
          MaxEdits       \* Changes of a setting (bound).

\* The type, the default and the allowed range of each number.
Number == [
  BIND_PORT                        |-> [type |-> 65535, default |-> 33033, low |-> 1, high |-> 65535],
  WORKERS                          |-> [type |-> UsizeMax, default |-> 5, low |-> 1, high |-> 65535],
  OPENVPN_STATUS_SAMPLING_INTERVAL |-> [type |-> UsizeMax, default |-> 30, low |-> 1, high |-> UsizeMax],
  OPENVPN_STATUS_REQUEST_MAX_LINES |-> [type |-> UsizeMax, default |-> 1000, low |-> 1, high |-> 10000],
  OPENVPN_STATUS_CACHE_MAX_SIZE    |-> [type |-> UsizeMax, default |-> 10485760, low |-> 1, high |-> UsizeMax]]

Numbers == DOMAIN Number
\* Texts a regular expression accepts, or not.
Checked == {"BIND_IP", "FWCLOUD_SCRIPT_PATHS", "OPENVPN_STATUS_FILES"}
Settings == Numbers \cup Checked \cup {"ENABLE_API_KEY", "API_KEY", "ALLOWED_IPS"}

ASSUME UsizeAssumption == UsizeMax \in Nat /\ UsizeMax >= 10485760
ASSUME TextsAssumption ==
  /\ \A s \in Settings \ {"API_KEY", "ALLOWED_IPS"} : Unset \in Texts[s]
  /\ \A s \in Numbers : Texts[s] \subseteq {Unset, Garbage} \cup Nat
  /\ \A s \in Checked : Texts[s] \subseteq {Unset, "good", "bad"}
  /\ Texts["ENABLE_API_KEY"] \subseteq {Unset, Garbage, "true", "false"}
  /\ Texts["API_KEY"] \subseteq Keys \cup {BadKey, Unset}
  /\ <<>> \in Texts["ALLOWED_IPS"]
  /\ Texts["ALLOWED_IPS"] \subseteq Seq(Peers \cup {Space, Junk})
ASSUME DistinctAssumption ==
  /\ Keys \cap {BadKey, NoKey, Binary, RandomKey, Unset} = {}
  /\ BadKey # Unset /\ RandomKey \notin {BadKey, NoKey, Binary}
  /\ Peers \cap {NoPeer, Space, Junk} = {} /\ Space \notin {NoPeer, Junk}
  /\ {Unset, Garbage} \cap (Nat \cup {"true", "false", "good", "bad"}) = {}
ASSUME EditsAssumption == MaxEdits \in Nat

VARIABLES
  env,     \* The environment and the .env file, as they stand.
  edits,   \* How often they have been changed.
  agent,   \* Where the process is.
  cfg,     \* Its Config.
  read,    \* History: the environment it was started with.
  req,     \* req[r]: what the request carries,
  pc,      \* pc[r]: where it is,
  status   \* status[r]: the status it is answered with, or 0.

vars == <<env, edits, agent, cfg, read, req, pc, status>>

\* ping and info; interfaces and iptables-save, which run a command; systemctl,
\* which runs one too, if its body is as it should be.
Operations == {"value", "command", "systemctl", "systemctl_bad"}
Request == [key : Keys \cup {BadKey, NoKey, Binary}, peer : Peers \cup {NoPeer}, op : Operations]

Config == [number : [Numbers -> Nat], enableApiKey : BOOLEAN,
           apiKey : Keys \cup {RandomKey}, allowedIps : SUBSET Seq(Peers \cup {Space, Junk})]

-----------------------------------------------------------------------------
(* Config::new. *)

\* unwrap_or the default: what is no number of the type is not an error.
Parsed(s, text) == IF text \in 0 .. Number[s].type THEN text ELSE Number[s].default

\* Slip: what is not "true" turns it off.
EnableApiKeyIfTrue(text) == text \in {Unset, "true"}

EnableApiKey(text) == text # "false"

\* Slip: no key is made up.
ApiKeyAsWritten(text) == text

ApiKey(text) == IF text = Unset THEN RandomKey ELSE text

\* IPV4_LIST: each address may have one space after it.
IsIpv4List(text) ==
  \A k \in DOMAIN text :
    text[k] \in Peers \/ (text[k] = Space /\ k > 1 /\ text[k-1] \in Peers)

\* The text split at its spaces: two addresses that touch are one entry.
AllowedIps(text) ==
  {SubSeq(text, i[1], i[2]) : i \in {i \in (1 .. Len(text)) \X (1 .. Len(text)) :
                                      /\ i[1] <= i[2]
                                      /\ \A k \in i[1] .. i[2] : text[k] # Space
                                      /\ i[1] > 1 => text[i[1] - 1] = Space
                                      /\ i[2] < Len(text) => text[i[2] + 1] = Space}}

InRange(s, n) == Number[s].low <= n /\ n <= Number[s].high

\* Slip: the numbers are not validated.
ValidTexts(e) == /\ \A s \in Checked : e[s] # "bad"
                 /\ e["API_KEY"] # BadKey
                 /\ IsIpv4List(e["ALLOWED_IPS"])

Valid(e) == /\ \A s \in Checked : e[s] # "bad"
            /\ e["API_KEY"] # BadKey
            /\ IsIpv4List(e["ALLOWED_IPS"])
            /\ \A s \in Numbers : InRange(s, Parsed(s, e[s]))

AtLeastTwo(n) == IF n < 2 THEN 2 ELSE n

Load(e) ==
  [number |-> [s \in Numbers |-> IF s = "WORKERS" THEN AtLeastTwo(Parsed(s, e[s]))
                                 ELSE Parsed(s, e[s])],
   enableApiKey |-> EnableApiKey(e["ENABLE_API_KEY"]),
   apiKey |-> ApiKey(e["API_KEY"]),
   allowedIps |-> AllowedIps(e["ALLOWED_IPS"])]

-----------------------------------------------------------------------------
(* The process. *)

\* The package writes an .env file with an API key of its own and no more.
Init ==
  /\ \E key \in Keys \cap Texts["API_KEY"] :
       env = [s \in Settings |-> IF s = "API_KEY" THEN key
                                 ELSE IF s = "ALLOWED_IPS" THEN <<>> ELSE Unset]
  /\ edits = 0
  /\ agent = "stopped" /\ cfg = NoConfig /\ read = env
  /\ req = [r \in Requests |-> NoRequest]
  /\ pc = [r \in Requests |-> "idle"]
  /\ status = [r \in Requests |-> 0]

Edit(s) ==
  /\ edits < MaxEdits /\ edits' = edits + 1
  /\ \E text \in Texts[s] : env' = [env EXCEPT ![s] = text]
  /\ UNCHANGED <<agent, cfg, read, req, pc, status>>

\* Whatever goes wrong before the server runs ends main.
Fail == agent' = "failed" /\ cfg' = NoConfig

\* Config::new; a directory that cannot be created is an error too.
ReadConfig ==
  /\ agent \in {"stopped", "failed"}
  /\ read' = env
  /\ \/ Valid(env) /\ cfg' = Load(env) /\ agent' = "configured"
     \/ Fail
  /\ UNCHANGED <<env, edits, req, pc, status>>

BindTo ==
  /\ agent = "configured"
  /\ (agent' = "bound" /\ UNCHANGED cfg) \/ Fail
  /\ UNCHANGED <<env, edits, read, req, pc, status>>

\* The collector starts, then the server; the key or the certificate of TLS may
\* be missing.
Run ==
  /\ agent = "bound"
  /\ (agent' = "running" /\ UNCHANGED cfg) \/ Fail
  /\ UNCHANGED <<env, edits, read, req, pc, status>>

\* SIGTERM: no new requests.
Stop ==
  /\ agent = "running"
  /\ agent' = "stopping"
  /\ UNCHANGED <<env, edits, cfg, read, req, pc, status>>

\* The process ends, at once when it is killed; its connections are lost.
Exit ==
  /\ agent \in {"running", "stopping"}
  /\ agent' = "stopped" /\ cfg' = NoConfig
  /\ pc' = [r \in Requests |-> IF pc[r] = "idle" THEN "idle" ELSE "over"]
  /\ UNCHANGED <<env, edits, read, req, status>>

-----------------------------------------------------------------------------
(* The requests. *)

\* FwcError::status_code.
StatusCode(error) ==
  CASE error = "Validation" -> 400
    [] error \in {"ApiKeyNotFound", "ApiKeyNotValid", "NotAllowedIP"} -> 403
    [] error \in {"Internal", "PopenError", "CmdExitStatusNotZero"} -> 500

Answer(r, code) == /\ pc' = [pc EXCEPT ![r] = "answered"]
                   /\ status' = [status EXCEPT ![r] = code]

Goto(r, place) == /\ pc' = [pc EXCEPT ![r] = place]
                  /\ UNCHANGED status

Receive(r) ==
  /\ agent = "running" /\ pc[r] = "idle"
  /\ \E q \in Request : req' = [req EXCEPT ![r] = q]
  /\ Goto(r, "received")
  /\ UNCHANGED <<env, edits, agent, cfg, read>>

\* Slip: the settings as they stand now.
InListNow(q) == AllowedIps(env["ALLOWED_IPS"]) = {} \/ <<q.peer>> \in AllowedIps(env["ALLOWED_IPS"])

InList(q) == cfg.allowedIps = {} \/ <<q.peer>> \in cfg.allowedIps

\* The middleware, in its order: the address is looked at only where a key is
\* needed, and after it.
Authorize(r) ==
  LET q == req[r] IN
  /\ pc[r] = "received"
  /\ \/ ~cfg.enableApiKey /\ Goto(r, "handler")
     \/ cfg.enableApiKey /\ q.key = NoKey /\ Answer(r, StatusCode("ApiKeyNotFound"))
     \* to_str fails and unwrap panics: the connection is closed unanswered.
     \/ cfg.enableApiKey /\ q.key = Binary /\ Goto(r, "over")
     \/ /\ cfg.enableApiKey /\ q.key \notin {NoKey, Binary, cfg.apiKey}
        /\ Answer(r, StatusCode("ApiKeyNotValid"))
     \/ /\ cfg.enableApiKey /\ q.key = cfg.apiKey
        /\ \/ InList(q) /\ Goto(r, "handler")
           \/ ~InList(q) /\ q.peer = NoPeer /\ Answer(r, StatusCode("Internal"))
           \/ ~InList(q) /\ q.peer # NoPeer /\ Answer(r, StatusCode("NotAllowedIP"))
  /\ UNCHANGED <<env, edits, agent, cfg, read, req>>

\* The handler; systemctl validates its body first.
Handle(r) ==
  /\ pc[r] = "handler"
  /\ CASE req[r].op = "value" -> Answer(r, 200)
       [] req[r].op = "systemctl_bad" -> Answer(r, StatusCode("Validation"))
       [] OTHER -> Goto(r, "command") \/ Answer(r, StatusCode("PopenError"))
  /\ UNCHANGED <<env, edits, agent, cfg, read, req>>

\* run_cmd: what systemctl exits with does not matter.
CommandEnds(r) ==
  /\ pc[r] = "command"
  /\ \/ Answer(r, 200)
     \/ req[r].op # "systemctl" /\ Answer(r, StatusCode("CmdExitStatusNotZero"))
  /\ UNCHANGED <<env, edits, agent, cfg, read, req>>

Next ==
  \/ \E s \in Settings : Edit(s)
  \/ ReadConfig \/ BindTo \/ Run \/ Stop \/ Exit
  \/ \E r \in Requests : Receive(r) \/ Authorize(r) \/ Handle(r) \/ CommandEnds(r)

Spec == Init /\ [][Next]_vars

-----------------------------------------------------------------------------
(* Properties. *)

TypeOK ==
  /\ env = [s \in Settings |-> env[s]] /\ \A s \in Settings : env[s] \in Texts[s]
  /\ edits \in 0 .. MaxEdits
  /\ agent \in {"stopped", "configured", "bound", "running", "stopping", "failed"}
  /\ cfg \in Config \cup {NoConfig}
  /\ read = [s \in Settings |-> read[s]] /\ \A s \in Settings : read[s] \in Texts[s]
  /\ req \in [Requests -> Request \cup {NoRequest}]
  /\ pc \in [Requests -> {"idle", "received", "handler", "command", "answered", "over"}]
  /\ status \in [Requests -> {0, 200, 400, 403, 500}]

\* Whether a list names an address: between spaces, or the ends of the text.
Names(text, p) ==
  \E k \in 1 .. Len(text) : /\ text[k] = p
                            /\ k > 1 => text[k-1] = Space
                            /\ k < Len(text) => text[k+1] = Space

\* What the settings say of a request: without need of a key, everybody's is
\* served; else the key must be the one set, and the address be in the list
\* unless there is no list.
Allowed(e, q) ==
  \/ e["ENABLE_API_KEY"] = "false"
  \/ /\ q.key \in Keys /\ q.key = e["API_KEY"]
     /\ e["ALLOWED_IPS"] = <<>> \/ Names(e["ALLOWED_IPS"], q.peer)

Served(r) == \/ pc[r] \in {"handler", "command"}
             \/ pc[r] = "answered" /\ status[r] \in {200, 400}

\* No request reaches a handler, and none runs a command, but those that the
\* settings the agent was started with allow: whatever is edited meanwhile, a
\* flag that does not parse keeps the key needed, an agent without a key of its
\* own serves nobody, and no list lets everybody in.
OnlyAllowedServed == \A r \in Requests : Served(r) => Allowed(read, req[r])

\* Who is answered "forbidden" was not allowed to by those settings: an address
\* of the list is let in wherever in the list it is.
RefusedOnlyOthers ==
  \A r \in Requests : pc[r] = "answered" /\ status[r] = 403 => ~Allowed(read, req[r])

\* The numbers of an agent that has started are in their ranges, though one that
\* does not parse never makes it fail: a number that is written is used as it
\* is, one worker apart, and whatever else is written gives the default.
ConfigInForce ==
  agent \in {"configured", "bound", "running", "stopping"} =>
    \A s \in Numbers :
      LET n == cfg.number[s] IN
      /\ InRange(s, n) /\ (s = "WORKERS" => n >= 2)
      /\ IF read[s] \in 0 .. Number[s].type
         THEN n = read[s] \/ (s = "WORKERS" /\ read[s] = 1)
         ELSE n = Number[s].default

=============================================================================
