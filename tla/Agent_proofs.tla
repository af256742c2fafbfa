---------------------------- MODULE Agent_proofs ----------------------------
(***************************************************************************)
(* Proofs about Agent: its types, and what its settings mean for requests, *)
(* for any keys, addresses, lists and changes of the environment.          *)
(***************************************************************************)
EXTENDS Agent, SequenceLemmas

\* The table of the numbers.
LEMMA NumberTable ==
  /\ \A s \in Numbers :
       /\ Number[s].type \in Nat /\ Number[s].default \in Nat
       /\ Number[s].low = 1 /\ Number[s].high \in Nat
       /\ InRange(s, Number[s].default)
  /\ "WORKERS" \in Numbers
  /\ Number["WORKERS"].default = 5 /\ Number["WORKERS"].high = 65535
<1>1. Numbers = {"BIND_PORT", "WORKERS", "OPENVPN_STATUS_SAMPLING_INTERVAL",
                 "OPENVPN_STATUS_REQUEST_MAX_LINES", "OPENVPN_STATUS_CACHE_MAX_SIZE"}
  BY DEF Numbers, Number
<1> QED
  BY <1>1, UsizeAssumption DEF Number, InRange

\* What the parser makes of a text is a number.
LEMMA ParsedType ==
  ASSUME NEW s \in Numbers, NEW text
  PROVE  Parsed(s, text) \in Nat
BY NumberTable DEF Parsed

LEMMA SettingsKnown ==
  /\ Numbers \subseteq Settings /\ Checked \subseteq Settings
  /\ {"API_KEY", "ALLOWED_IPS", "ENABLE_API_KEY"} \subseteq Settings
BY DEF Settings

\* The settings of an agent come from texts.
Texted(e) == e = [s \in Settings |-> e[s]] /\ \A s \in Settings : e[s] \in Texts[s]

LEMMA AllowedIpsType ==
  ASSUME NEW S, NEW text \in Seq(S)
  PROVE  AllowedIps(text) \subseteq Seq(S)
<1>1. Len(text) \in Nat
  BY LenProperties
<1>2. ASSUME NEW m \in 1 .. Len(text), NEW n \in 1 .. Len(text), m <= n
      PROVE  SubSeq(text, m, n) \in Seq(S)
  BY <1>1, <1>2, SubSeqProperties
<1> QED
  BY <1>2 DEF AllowedIps

\* A Config that has been validated has its types.
LEMMA LoadType ==
  ASSUME NEW e, Texted(e), Valid(e)
  PROVE  Load(e) \in Config
<1>1. [s \in Numbers |-> IF s = "WORKERS" THEN AtLeastTwo(Parsed(s, e[s]))
                         ELSE Parsed(s, e[s])] \in [Numbers -> Nat]
  BY ParsedType DEF AtLeastTwo
<1>2. EnableApiKey(e["ENABLE_API_KEY"]) \in BOOLEAN
  BY DEF EnableApiKey
<1>3. ApiKey(e["API_KEY"]) \in Keys \cup {RandomKey}
  BY SettingsKnown, TextsAssumption DEF Texted, Valid, ApiKey
<1>4. AllowedIps(e["ALLOWED_IPS"]) \subseteq Seq(Peers \cup {Space, Junk})
  <2>1. e["ALLOWED_IPS"] \in Seq(Peers \cup {Space, Junk})
    BY SettingsKnown, TextsAssumption DEF Texted
  <2> QED
    BY <2>1, AllowedIpsType
<1> QED
  BY <1>1, <1>2, <1>3, <1>4 DEF Load, Config

-----------------------------------------------------------------------------
(* The list of addresses. *)

\* What is between i[1] and i[2] is an entry of the list.
Entry(text, i) ==
  /\ i[1] <= i[2]
  /\ \A k \in i[1] .. i[2] : text[k] # Space
  /\ i[1] > 1 => text[i[1] - 1] = Space
  /\ i[2] < Len(text) => text[i[2] + 1] = Space

LEMMA AllowedIpsEntries ==
  ASSUME NEW text
  PROVE  AllowedIps(text) =
           {SubSeq(text, i[1], i[2]) :
              i \in {i \in (1 .. Len(text)) \X (1 .. Len(text)) : Entry(text, i)}}
BY DEF AllowedIps, Entry

\* The entry that is one place of the text.
LEMMA EntryOfOne ==
  ASSUME NEW S, NEW text \in Seq(S), NEW k \in 1 .. Len(text), text[k] # Space,
         k > 1 => text[k-1] = Space, k < Len(text) => text[k+1] = Space
  PROVE  <<text[k]>> \in AllowedIps(text)
<1>1. Len(text) \in Nat
  BY LenProperties
<1>2. \A j \in k .. k : j = k
  BY <1>1
<1>3. \A j \in k .. k : text[j] # Space
  BY <1>2
<1>4. SubSeq(text, k, k) = <<text[k]>>
  <2>1. \A j \in k .. k : text[j] \in {text[k]}
    BY <1>2
  <2>2. /\ SubSeq(text, k, k) \in Seq({text[k]}) /\ Len(SubSeq(text, k, k)) = 1
        /\ SubSeq(text, k, k)[1] = text[k]
    BY <1>1, <2>1, SubSeqProperties
  <2>3. <<text[k]>> \in Seq({text[k]}) /\ Len(<<text[k]>>) = 1
    OBVIOUS
  <2>4. \A j \in 1 .. 1 : SubSeq(text, k, k)[j] = <<text[k]>>[j]
    BY <2>2
  <2> QED
    BY <2>2, <2>3, <2>4, SeqEqual
<1> DEFINE i == <<k, k>>
<1>5. i[1] = k /\ i[2] = k /\ i \in (1 .. Len(text)) \X (1 .. Len(text))
  OBVIOUS
<1> HIDE DEF i
<1>6. Entry(text, i)
  BY <1>1, <1>3, <1>5 DEF Entry
<1>7. SubSeq(text, i[1], i[2]) \in AllowedIps(text)
  BY <1>5, <1>6, AllowedIpsEntries
<1> QED
  BY <1>4, <1>5, <1>7

\* An address is an entry exactly if it stands between spaces.
LEMMA EntryIsNamed ==
  ASSUME NEW S, NEW text \in Seq(S), NEW p, p # Space
  PROVE  <<p>> \in AllowedIps(text) <=> Names(text, p)
<1>1. Len(text) \in Nat
  BY LenProperties
<1>2. ASSUME <<p>> \in AllowedIps(text) PROVE Names(text, p)
  <2>1. PICK i \in (1 .. Len(text)) \X (1 .. Len(text)) :
               Entry(text, i) /\ <<p>> = SubSeq(text, i[1], i[2])
    BY <1>2, AllowedIpsEntries
  <2> DEFINE m == i[1]  n == i[2]
  <2>2. m \in 1 .. Len(text) /\ n \in 1 .. Len(text) /\ m <= n
    BY <2>1 DEF Entry
  <2>3. Len(SubSeq(text, m, n)) = n - m + 1 /\ SubSeq(text, m, n)[1] = text[m]
    BY <1>1, <2>2, SubSeqProperties
  <2>4. m = n /\ text[m] = p
    BY <2>1, <2>2, <2>3
  <2> QED
    BY <2>1, <2>2, <2>4 DEF Entry, Names
<1>3. ASSUME Names(text, p) PROVE <<p>> \in AllowedIps(text)
  <2>1. PICK k \in 1 .. Len(text) : /\ text[k] = p
                                    /\ k > 1 => text[k-1] = Space
                                    /\ k < Len(text) => text[k+1] = Space
    BY <1>3 DEF Names
  <2>2. text[k] # Space
    BY <2>1, Zenon
  <2>3. <<text[k]>> \in AllowedIps(text)
    BY <2>1, <2>2, EntryOfOne, Zenon
  <2> QED
    BY <2>1, <2>3, Zenon
<1> QED
  BY <1>2, <1>3

\* The places where an entry that starts the text may end.
Ends(text) == {n \in 1 .. Len(text) : n = Len(text) \/ text[n + 1] = Space}

LEMMA FirstEntryEnds ==
  ASSUME NEW S, NEW text \in Seq(S), text # <<>>
  PROVE  \E n \in 1 .. Len(text) :
            /\ n = Len(text) \/ text[n + 1] = Space
            /\ \A k \in 1 .. Len(text) : k < n => text[k + 1] # Space
<1>1. Len(text) \in Nat /\ Len(text) # 0
  BY LenProperties, EmptySeq
<1>2. Len(text) \in Ends(text) /\ Ends(text) \subseteq Nat
  BY <1>1 DEF Ends
<1>3. \E n \in Ends(text) : \A k \in Ends(text) : n <= k
  BY <1>2, LeastOf
<1>4. ASSUME NEW n, n \in Ends(text), \A k \in Ends(text) : n <= k
      PROVE  /\ n \in 1 .. Len(text)
             /\ n = Len(text) \/ text[n + 1] = Space
             /\ \A k \in 1 .. Len(text) : k < n => text[k + 1] # Space
  <2>1. n \in 1 .. Len(text) /\ (n = Len(text) \/ text[n + 1] = Space)
    BY <1>4, Zenon DEF Ends
  <2>2. ASSUME NEW k \in 1 .. Len(text), k < n, text[k + 1] = Space PROVE FALSE
    <3>1. k \in Ends(text)
      BY <2>2, Zenon DEF Ends
    <3>2. ~(n <= k)
      BY <1>1, <2>1, <2>2
    <3> QED
      BY <1>4, <3>1, <3>2, Zenon
  <2> QED
    BY <2>1, <2>2
<1> QED
  BY <1>3, <1>4, Zenon

\* A list that is well formed and not empty has an entry: only a list of nothing
\* is no list.
LEMMA ListHasEntry ==
  ASSUME NEW S, NEW text \in Seq(S), IsIpv4List(text), text # <<>>
  PROVE  AllowedIps(text) # {}
<1>1. Len(text) \in Nat /\ Len(text) # 0 /\ DOMAIN text = 1 .. Len(text)
  BY LenProperties, EmptySeq
<1>2. text[1] \in Peers
  <2>1. 1 \in DOMAIN text
    BY <1>1
  <2> QED
    BY <2>1 DEF IsIpv4List
<1>3. text[1] # Space
  BY <1>2, DistinctAssumption
<1>4. PICK n \in 1 .. Len(text) :
          /\ n = Len(text) \/ text[n + 1] = Space
          /\ \A k \in 1 .. Len(text) : k < n => text[k + 1] # Space
  BY FirstEntryEnds
<1>5. n \in 1 .. Len(text) /\ (n < Len(text) => text[n + 1] = Space)
  <2> DEFINE L == Len(text)
  <2>1. L \in Nat /\ n \in 1 .. L
    BY <1>1
  <2> HIDE DEF L
  <2>2. n < L => n # L
    BY ONLY <2>1
  <2>3. n < Len(text) => n # Len(text)
    BY <2>2, Zenon DEF L
  <2> QED
    BY <1>4, <2>3, Zenon
<1>6. ASSUME NEW k \in 1 .. n, k # 1 PROVE text[k] # Space
  <2>1. k - 1 \in 1 .. Len(text) /\ k - 1 < n /\ (k - 1) + 1 = k
    BY <1>1, <1>5, <1>6
  <2> QED
    BY <1>4, <2>1
<1>7. \A k \in 1 .. n : text[k] # Space
  BY <1>3, <1>6
<1> DEFINE i == <<1, n>>
<1>8. i[1] = 1 /\ i[2] = n /\ i \in (1 .. Len(text)) \X (1 .. Len(text))
  BY <1>1, <1>5
<1> HIDE DEF i
<1>9. Entry(text, i)
  BY <1>1, <1>5, <1>7, <1>8 DEF Entry
<1>10. SubSeq(text, i[1], i[2]) \in AllowedIps(text)
  BY <1>8, <1>9, AllowedIpsEntries
<1> QED
  BY <1>10

-----------------------------------------------------------------------------
(* The types. *)

LEMMA StatusCodes ==
  /\ StatusCode("Validation") = 400
  /\ StatusCode("ApiKeyNotFound") = 403 /\ StatusCode("ApiKeyNotValid") = 403
  /\ StatusCode("NotAllowedIP") = 403
  /\ StatusCode("Internal") = 500 /\ StatusCode("PopenError") = 500
  /\ StatusCode("CmdExitStatusNotZero") = 500
BY DEF StatusCode

LEMMA InitTypes == Init => TypeOK
<1> SUFFICES ASSUME Init PROVE TypeOK
  OBVIOUS
<1>1. PICK key \in Keys \cap Texts["API_KEY"] :
             env = [s \in Settings |-> IF s = "API_KEY" THEN key
                                       ELSE IF s = "ALLOWED_IPS" THEN <<>> ELSE Unset]
  BY DEF Init
<1>2. \A s \in Settings : env[s] \in Texts[s]
  BY <1>1, TextsAssumption
<1>3. env = [s \in Settings |-> env[s]] /\ read = env
  BY <1>1 DEF Init
<1>4. /\ edits \in 0 .. MaxEdits /\ agent = "stopped" /\ cfg = NoConfig
      /\ req \in [Requests -> Request \cup {NoRequest}]
  BY EditsAssumption DEF Init
<1>5. /\ pc \in [Requests -> {"idle", "received", "handler", "command", "answered", "over"}]
      /\ status \in [Requests -> {0, 200, 400, 403, 500}]
  BY DEF Init
<1> QED
  BY <1>2, <1>3, <1>4, <1>5 DEF TypeOK

LEMMA NextTypes == TypeOK /\ [Next]_vars => TypeOK'
<1> SUFFICES ASSUME TypeOK, [Next]_vars PROVE TypeOK'
  OBVIOUS
<1>1. ASSUME NEW s \in Settings, Edit(s) PROVE TypeOK'
  <2>1. PICK text \in Texts[s] : env' = [env EXCEPT ![s] = text]
    BY <1>1 DEF Edit
  <2>2. env' = [t \in Settings |-> env'[t]] /\ \A t \in Settings : env'[t] \in Texts[t]
    BY <2>1 DEF TypeOK
  <2>3. edits' \in 0 .. MaxEdits
    BY <1>1, EditsAssumption DEF TypeOK, Edit
  <2>4. UNCHANGED <<agent, cfg, read, req, pc, status>>
    BY <1>1 DEF Edit
  <2> QED
    BY <2>2, <2>3, <2>4 DEF TypeOK
<1>2. ASSUME ReadConfig PROVE TypeOK'
  <2>1. read' = env /\ UNCHANGED <<env, edits, req, pc, status>>
    BY <1>2 DEF ReadConfig
  <2>2. agent' \in {"configured", "failed"} /\ cfg' \in Config \cup {NoConfig}
    <3>1. Texted(env)
      BY DEF TypeOK, Texted
    <3> QED
      BY <1>2, <3>1, LoadType, Zenon DEF ReadConfig, Fail
  <2> QED
    BY <2>1, <2>2 DEF TypeOK
<1>3. ASSUME BindTo \/ Run \/ Stop PROVE TypeOK'
  BY <1>3 DEF TypeOK, BindTo, Run, Stop, Fail
<1>4. ASSUME Exit PROVE TypeOK'
  BY <1>4 DEF TypeOK, Exit
<1>5. ASSUME NEW r \in Requests, Receive(r) PROVE TypeOK'
  BY <1>5 DEF TypeOK, Receive, Goto
<1>6. ASSUME NEW r \in Requests, Authorize(r) \/ Handle(r) \/ CommandEnds(r) PROVE TypeOK'
  <2>1. UNCHANGED <<env, edits, agent, cfg, read, req>>
    BY <1>6 DEF Authorize, Handle, CommandEnds
  <2>2. \/ \E code \in {200, 400, 403, 500} : Answer(r, code)
        \/ \E place \in {"handler", "command", "over"} : Goto(r, place)
    BY <1>6, StatusCodes DEF Authorize, Handle, CommandEnds
  <2> QED
    BY <2>1, <2>2 DEF TypeOK, Answer, Goto
<1>7. ASSUME UNCHANGED vars PROVE TypeOK'
  BY <1>7 DEF TypeOK, vars
<1> QED
  BY <1>1, <1>2, <1>3, <1>4, <1>5, <1>6, <1>7 DEF Next

\* Whatever is written in the environment and whatever requests carry, the
\* state of the agent has its types (Config::new, and the answers).
THEOREM TypeCorrect == Spec => []TypeOK
BY InitTypes, NextTypes, PTL DEF Spec

-----------------------------------------------------------------------------
(* What the settings decide. *)

Started == agent \in {"configured", "bound", "running", "stopping"}

\* A started agent has the validated settings it read.
ConfigLoaded == Started => cfg = Load(read) /\ Valid(read)

\* Requests are only of a running agent, and carry something.
InFlight ==
  \A r \in Requests : /\ pc[r] \notin {"idle", "over"} => agent \in {"running", "stopping"}
                      /\ pc[r] # "idle" => req[r] \in Request

\* Exactly the requests the settings allow get past the middleware.
LEMMA Decision ==
  ASSUME NEW q \in Request, TypeOK, Valid(read), cfg = Load(read)
  PROVE  /\ ~cfg.enableApiKey => Allowed(read, q)
         /\ cfg.enableApiKey /\ q.key = cfg.apiKey /\ InList(q) => Allowed(read, q)
         /\ cfg.enableApiKey /\ (q.key # cfg.apiKey \/ ~InList(q)) => ~Allowed(read, q)
<1> DEFINE text == read["ALLOWED_IPS"]
<1>1. text \in Seq(Peers \cup {Space, Junk}) /\ IsIpv4List(text)
  BY SettingsKnown, TextsAssumption DEF TypeOK, Valid
<1>2. /\ cfg.enableApiKey = EnableApiKey(read["ENABLE_API_KEY"])
      /\ cfg.apiKey = ApiKey(read["API_KEY"])
      /\ cfg.allowedIps = AllowedIps(text)
  BY DEF Load
<1>3. read["API_KEY"] \in Keys \cup {Unset}
  BY SettingsKnown, TextsAssumption DEF TypeOK, Valid
<1>4. q.key \in Keys \cup {BadKey, NoKey, Binary} /\ q.peer \in Peers \cup {NoPeer}
  BY DEF Request
<1>5. cfg.enableApiKey <=> read["ENABLE_API_KEY"] # "false"
  BY <1>2 DEF EnableApiKey
<1>6. q.key = cfg.apiKey <=> q.key \in Keys /\ q.key = read["API_KEY"]
  BY <1>2, <1>3, <1>4, DistinctAssumption DEF ApiKey
<1> HIDE DEF text
<1>7. InList(q) <=> text = <<>> \/ Names(text, q.peer)
  <2>1. q.peer # Space
    BY <1>4, DistinctAssumption
  <2>2. <<q.peer>> \in AllowedIps(text) <=> Names(text, q.peer)
    BY <1>1, <2>1, EntryIsNamed
  <2>3. text # <<>> => AllowedIps(text) # {}
    BY <1>1, ListHasEntry
  <2>4. text = <<>> => AllowedIps(text) = {}
    <3>1. Len(<<>>) = 0
      OBVIOUS
    <3>2. 1 .. 0 = {}
      OBVIOUS
    <3> QED
      BY <3>1, <3>2 DEF AllowedIps
  <2> QED
    BY <1>2, <2>2, <2>3, <2>4, Zenon DEF InList
<1> QED
  BY <1>5, <1>6, <1>7, Zenon DEF Allowed, text

\* The decisions so far agree with the settings the agent was started with.
Agreed == ConfigLoaded /\ InFlight /\ OnlyAllowedServed /\ RefusedOnlyOthers

LEMMA InitAgreed == Init => Agreed
BY DEF Init, Agreed, ConfigLoaded, Started, InFlight, OnlyAllowedServed, Served, RefusedOnlyOthers

LEMMA NextAgreed == TypeOK /\ Agreed /\ [Next]_vars => Agreed'
<1> SUFFICES ASSUME TypeOK, Agreed, [Next]_vars PROVE Agreed'
  OBVIOUS
\* Steps that leave the requests and the settings alone.
<1>1. ASSUME UNCHANGED <<read, req, pc, status>>, ConfigLoaded',
             agent \in {"running", "stopping"} => agent' \in {"running", "stopping"}
      PROVE  Agreed'
  BY <1>1 DEF Agreed, InFlight, OnlyAllowedServed, RefusedOnlyOthers, Served
<1>2. ASSUME NEW s \in Settings, Edit(s) PROVE Agreed'
  <2>1. UNCHANGED <<agent, cfg, read, req, pc, status>>
    BY <1>2 DEF Edit
  <2> QED
    BY <1>1, <2>1 DEF Agreed, ConfigLoaded, Started
<1>3. ASSUME ReadConfig PROVE Agreed'
  <2>1. /\ agent \in {"stopped", "failed"}
        /\ read' = env /\ UNCHANGED <<req, pc, status>>
        /\ \/ Valid(env) /\ cfg' = Load(env) /\ agent' = "configured"
           \/ cfg' = NoConfig /\ agent' = "failed"
    BY <1>3 DEF ReadConfig, Fail
  <2>2. ConfigLoaded'
    BY <2>1 DEF ConfigLoaded, Started
  <2>3. \A r \in Requests : pc[r] \in {"idle", "over"}
    BY <2>1 DEF Agreed, InFlight
  <2>4. InFlight'
    BY <2>1, <2>3 DEF Agreed, InFlight
  <2>5. OnlyAllowedServed' /\ RefusedOnlyOthers'
    BY <2>1, <2>3 DEF OnlyAllowedServed, RefusedOnlyOthers, Served
  <2> QED
    BY <2>2, <2>4, <2>5 DEF Agreed
<1>4. ASSUME BindTo \/ Run \/ Stop PROVE Agreed'
  <2>1. UNCHANGED <<read, req, pc, status>>
    BY <1>4 DEF BindTo, Run, Stop
  <2>2. ConfigLoaded'
    BY <1>4 DEF Agreed, ConfigLoaded, Started, BindTo, Run, Stop, Fail
  <2>3. agent \in {"running", "stopping"} => agent' \in {"running", "stopping"}
    BY <1>4 DEF BindTo, Run, Stop
  <2> QED
    BY <1>1, <2>1, <2>2, <2>3
<1>5. ASSUME Exit PROVE Agreed'
  <2>1. /\ agent' = "stopped" /\ UNCHANGED <<read, req, status>>
        /\ pc' = [r \in Requests |-> IF pc[r] = "idle" THEN "idle" ELSE "over"]
    BY <1>5 DEF Exit
  <2> QED
    BY <2>1 DEF Agreed, ConfigLoaded, Started, InFlight, OnlyAllowedServed,
                RefusedOnlyOthers, Served
\* Steps of one request: the others are as they were.
<1>6. ASSUME NEW r \in Requests, UNCHANGED <<agent, cfg, read>>,
             \A x \in Requests \ {r} :
               pc'[x] = pc[x] /\ status'[x] = status[x] /\ req'[x] = req[x],
             pc'[r] \notin {"idle", "over"} => agent \in {"running", "stopping"},
             pc'[r] # "idle" => req'[r] \in Request,
             Served(r)' => Allowed(read, req'[r]),
             pc'[r] = "answered" /\ status'[r] = 403 => ~Allowed(read, req'[r])
      PROVE  Agreed'
  <2>1. ConfigLoaded'
    BY <1>6 DEF Agreed, ConfigLoaded, Started
  <2>2. InFlight'
    BY <1>6 DEF Agreed, InFlight
  <2>3. OnlyAllowedServed'
    BY <1>6 DEF Agreed, OnlyAllowedServed, Served
  <2>4. RefusedOnlyOthers'
    BY <1>6 DEF Agreed, RefusedOnlyOthers
  <2> QED
    BY <2>1, <2>2, <2>3, <2>4 DEF Agreed
<1>7. ASSUME NEW r \in Requests, Receive(r) PROVE Agreed'
  <2>1. PICK q \in Request : req' = [req EXCEPT ![r] = q]
    BY <1>7 DEF Receive
  <2>2. /\ agent = "running" /\ UNCHANGED <<agent, cfg, read>>
        /\ pc' = [pc EXCEPT ![r] = "received"] /\ UNCHANGED status
    BY <1>7 DEF Receive, Goto
  <2>3. req'[r] = q /\ pc'[r] = "received"
    BY <2>1, <2>2 DEF TypeOK
  <2>4. \A x \in Requests \ {r} : pc'[x] = pc[x] /\ req'[x] = req[x]
    BY <2>1, <2>2 DEF TypeOK
  <2> QED
    BY <1>6, <2>2, <2>3, <2>4 DEF Served
<1>8. ASSUME NEW r \in Requests, Authorize(r) PROVE Agreed'
  <2>1. /\ pc[r] = "received" /\ UNCHANGED <<agent, cfg, read, req>>
        /\ agent \in {"running", "stopping"} /\ req[r] \in Request
    BY <1>8 DEF Authorize, Agreed, InFlight
  <2>2. Valid(read) /\ cfg = Load(read)
    BY <2>1 DEF Agreed, ConfigLoaded, Started
  <2>3. \/ ~cfg.enableApiKey /\ Goto(r, "handler")
        \/ cfg.enableApiKey /\ req[r].key = cfg.apiKey /\ InList(req[r]) /\ Goto(r, "handler")
        \/ cfg.enableApiKey /\ req[r].key # cfg.apiKey /\ Answer(r, 403)
        \/ Goto(r, "over")
        \/ Answer(r, 500)
        \/ cfg.enableApiKey /\ ~InList(req[r]) /\ Answer(r, 403)
    <3>1. cfg.apiKey # NoKey
      <4>1. read["API_KEY"] \in Keys \cup {Unset}
        BY <2>2, SettingsKnown, TextsAssumption DEF TypeOK, Valid
      <4>2. cfg.apiKey = ApiKey(read["API_KEY"])
        BY <2>2 DEF Load
      <4> QED
        BY <4>1, <4>2, DistinctAssumption DEF ApiKey
    <3> QED
      BY <1>8, <3>1, StatusCodes DEF Authorize
  <2>4. \/ Allowed(read, req[r]) /\ Goto(r, "handler")
        \/ ~Allowed(read, req[r]) /\ Answer(r, 403)
        \/ Goto(r, "over") \/ Answer(r, 500)
    BY <2>1, <2>2, <2>3, Decision
  <2>5. \A x \in Requests \ {r} : pc'[x] = pc[x] /\ status'[x] = status[x]
    BY <2>3 DEF TypeOK, Goto, Answer
  <2>6. \/ Allowed(read, req[r]) /\ pc'[r] = "handler"
        \/ ~Allowed(read, req[r]) /\ pc'[r] = "answered" /\ status'[r] = 403
        \/ pc'[r] = "over"
        \/ pc'[r] = "answered" /\ status'[r] = 500
    BY <2>4 DEF TypeOK, Goto, Answer
  <2>7. Served(r)' => Allowed(read, req'[r])
    BY <2>1, <2>6 DEF Served
  <2> QED
    BY <1>6, <2>1, <2>5, <2>6, <2>7
<1>9. ASSUME NEW r \in Requests, Handle(r) \/ CommandEnds(r) PROVE Agreed'
  <2>1. pc[r] \in {"handler", "command"} /\ UNCHANGED <<agent, cfg, read, req>>
    BY <1>9 DEF Handle, CommandEnds
  <2>2. /\ Allowed(read, req[r]) /\ req[r] \in Request
        /\ agent \in {"running", "stopping"}
    BY <2>1 DEF Agreed, InFlight, OnlyAllowedServed, Served
  <2>3. Goto(r, "command") \/ \E code \in {200, 400, 500} : Answer(r, code)
    BY <1>9, StatusCodes DEF Handle, CommandEnds
  <2>4. \A x \in Requests \ {r} : pc'[x] = pc[x] /\ status'[x] = status[x]
    BY <2>3 DEF TypeOK, Goto, Answer
  <2>5. pc'[r] = "command" \/ (pc'[r] = "answered" /\ status'[r] # 403)
    <3>1. ASSUME Goto(r, "command") PROVE pc'[r] = "command"
      BY <3>1 DEF TypeOK, Goto
    <3>2. ASSUME NEW code \in {200, 400, 500}, Answer(r, code)
          PROVE  pc'[r] = "answered" /\ status'[r] # 403
      <4>1. pc'[r] = "answered" /\ status'[r] = code
        BY <3>2 DEF TypeOK, Answer
      <4> QED
        BY <4>1
    <3> QED
      BY <2>3, <3>1, <3>2
  <2> QED
    BY <1>6, <2>1, <2>2, <2>4, <2>5
<1>10. ASSUME UNCHANGED vars PROVE Agreed'
  BY <1>1, <1>10 DEF vars, Agreed, ConfigLoaded, Started
<1> QED
  BY <1>2, <1>3, <1>4, <1>5, <1>7, <1>8, <1>9, <1>10 DEF Next

LEMMA AgreedAlways == Spec => []Agreed
<1>1. Init => TypeOK /\ Agreed
  BY InitTypes, InitAgreed
<1>2. TypeOK /\ Agreed /\ [Next]_vars => (TypeOK /\ Agreed)'
  BY NextTypes, NextAgreed
<1> QED
  BY <1>1, <1>2, PTL DEF Spec

\* The middleware lets past nobody whom the settings of the start do not allow:
\* for every text of a list, every key and every sequence of edits and restarts.
THEOREM ServesOnlyAllowed == Spec => []OnlyAllowedServed
<1>1. Agreed => OnlyAllowedServed
  BY DEF Agreed
<1> QED
  BY <1>1, AgreedAlways, PTL

\* And it forbids nobody whom they allow.
THEOREM RefusesOnlyOthers == Spec => []RefusedOnlyOthers
<1>1. Agreed => RefusedOnlyOthers
  BY DEF Agreed
<1> QED
  BY <1>1, AgreedAlways, PTL

\* The numbers a valid environment gives.
LEMMA LoadedNumber ==
  ASSUME NEW e, Valid(e), NEW s \in Numbers
  PROVE  /\ InRange(s, Load(e).number[s]) /\ (s = "WORKERS" => Load(e).number[s] >= 2)
         /\ IF e[s] \in 0 .. Number[s].type
            THEN Load(e).number[s] = e[s] \/ (s = "WORKERS" /\ e[s] = 1)
            ELSE Load(e).number[s] = Number[s].default
<1> DEFINE p == Parsed(s, e[s])
<1>1. p \in Nat /\ InRange(s, p)
  BY ParsedType DEF Valid
<1>2. Load(e).number[s] = IF s = "WORKERS" THEN AtLeastTwo(p) ELSE p
  BY DEF Load
<1>3. IF e[s] \in 0 .. Number[s].type THEN p = e[s] ELSE p = Number[s].default
  BY DEF Parsed
<1> HIDE DEF p
<1>4. CASE s = "WORKERS"
  <2>1. p \in Nat /\ 1 <= p /\ p <= 65535
    BY <1>1, <1>4, NumberTable DEF InRange
  <2>2. Load(e).number[s] = IF p < 2 THEN 2 ELSE p
    BY <1>2, <1>4 DEF AtLeastTwo
  <2>3. InRange(s, Load(e).number[s]) /\ Load(e).number[s] >= 2
    BY <2>1, <2>2, <1>4, NumberTable DEF InRange
  <2>4. Load(e).number[s] = p \/ p = 1
    BY <2>1, <2>2
  <2>5. p = 1 => e[s] \in 0 .. Number[s].type /\ e[s] = 1
    BY <1>3, <1>4, NumberTable
  <2> QED
    BY <1>3, <1>4, <2>3, <2>4, <2>5
<1>5. CASE s # "WORKERS"
  BY <1>1, <1>2, <1>3, <1>5
<1> QED
  BY <1>4, <1>5

\* A started agent has its numbers from the settings it read, in their ranges,
\* whatever is edited later.
THEOREM ConfigStaysInForce == Spec => []ConfigInForce
<1>1. Agreed => ConfigInForce
  BY LoadedNumber DEF Agreed, ConfigLoaded, Started, ConfigInForce
<1> QED
  BY <1>1, AgreedAlways, PTL
=============================================================================
