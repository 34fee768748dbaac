------------------------------ MODULE WireFormat ------------------------------
(* The texts of the coordinator protocols, and the texts that are signed.   *)
(* A text is a sequence of tokens: a keyword or label, or one character of  *)
(* a value.  A value that nothing has checked may hold any of them.  A      *)
(* definition named X_Y is X with the plausible bug Y.                      *)
EXTENDS Naturals, Sequences, Functions

CONSTANTS IdCharacter,        \* ASCII letters, digits, '-', '_' and '.'
          MAX_NODE_ID_BYTES, MAX_LEASE_SECONDS,
          Error

Space == " "
White == {Space, "\n"}

ASSUME WireFormatAssumption ==
    /\ IdCharacter \cap White = {}
    /\ MAX_NODE_ID_BYTES \in Nat
    /\ MAX_LEASE_SECONDS \in Nat

Digits == <<"0", "1", "2", "3", "4", "5", "6", "7", "8", "9">>

valid_node_id_AnyText(id) == id # << >> /\ Len(id) <= MAX_NODE_ID_BYTES

valid_node_id(id) ==
    /\ id # << >>
    /\ Len(id) <= MAX_NODE_ID_BYTES
    /\ \A i \in DOMAIN id : id[i] \in IdCharacter

-----------------------------------------------------------------------------
\* Numbers.

\* Display of an integer.
Decimal(n) ==
    LET text[m \in 0..n] ==
            IF m < 10 THEN <<Digits[m + 1]>>
            ELSE Append(text[m \div 10], Digits[(m % 10) + 1])
    IN text[n]

DigitValue(c) == (CHOOSE i \in DOMAIN Digits : Digits[i] = c) - 1
IsNumber(text) == text # << >> /\ Range(text) \subseteq Range(Digits)

NumberOf(digits) ==
    LET number[i \in 0..Len(digits)] ==
            IF i = 0 THEN 0
            ELSE 10 * number[i - 1] + DigitValue(digits[i])
    IN number[Len(digits)]

\* parse::<u64>, which also takes a leading plus sign.
ParseNumber(field) ==
    LET digits == IF field # << >> /\ Head(field) = "+" THEN Tail(field)
                  ELSE field IN
    IF IsNumber(digits) THEN NumberOf(digits) ELSE Error

parse_lease(field) ==
    LET seconds == ParseNumber(field) IN
    IF seconds # Error /\ seconds \in 1..MAX_LEASE_SECONDS THEN seconds
    ELSE Error

-----------------------------------------------------------------------------
\* Requests.

\* Two fields of a format string and the space between them.
s ++ t == (s \o <<Space>>) \o t

Extended(words, c) == [words EXCEPT ![Len(words)] = Append(@, c)]

\* The words of a text: a character after white space begins another one.
split_ascii_whitespace(text) ==
    LET words[i \in 0..Len(text)] ==
            IF i = 0 THEN << >>
            ELSE IF text[i] \in White THEN words[i - 1]
            ELSE IF i = 1 \/ text[i - 1] \in White
            THEN Append(words[i - 1], <<text[i]>>)
            ELSE Extended(words[i - 1], text[i])
    IN words[Len(text)]

\* What the commands of the plain clients send; register and the lookups of
\* nodes send the node ID as it was typed.
RequestText(r) ==
    CASE r.type = "REGISTER" ->
            <<"MESHLET/1">> ++ <<"REGISTER">> ++ r.node ++ Decimal(r.lease)
      [] r.type = "LOOKUP" -> <<"MESHLET/1">> ++ <<"LOOKUP">> ++ r.node
      [] r.type = "ADVERTISE_ROUTE" ->
            <<"MESHLET/1">> ++ <<"ADVERTISE_ROUTE">> ++ r.node ++ <<r.prefix>>
            ++ Decimal(r.lease)
      [] r.type = "ROUTE_LOOKUP" ->
            <<"MESHLET/1">> ++ <<"ROUTE_LOOKUP">> ++ <<r.destination>>
      [] r.type = "AUTH_LOOKUP" -> <<"MESHLET/2">> ++ <<"LOOKUP">> ++ r.node

\* The requests, for any node IDs, leases, prefixes and destinations.
Requests(ids, leases, prefixes, destinations) ==
    [type : {"REGISTER"}, node : ids, lease : leases]
    \cup [type : {"LOOKUP", "AUTH_LOOKUP"}, node : ids]
    \cup [type : {"ADVERTISE_ROUTE"}, node : ids, prefix : prefixes,
          lease : leases]
    \cup [type : {"ROUTE_LOOKUP"}, destination : destinations]

HasFields_AtLeast(fields, version, keyword, n) ==
    /\ Len(fields) >= n
    /\ fields[1] = <<version>>
    /\ fields[2] = <<keyword>>

\* A slice pattern of n fields that begins with these two.
HasFields(fields, version, keyword, n) ==
    /\ Len(fields) = n
    /\ fields[1] = <<version>>
    /\ fields[2] = <<keyword>>

\* A parsed request, unless one of its fields is refused.
Checked(request) ==
    IF \E field \in DOMAIN request : request[field] = Error THEN Error
    ELSE request

Id(field) == IF valid_node_id(field) THEN field ELSE Error

\* Prefixes and addresses are single tokens here: Ipv4Prefix is about them.
parse_request(text) ==
    LET f == split_ascii_whitespace(text) IN
    CASE HasFields(f, "MESHLET/1", "REGISTER", 4) ->
            Checked([type |-> "REGISTER", node |-> Id(f[3]),
                     lease |-> parse_lease(f[4])])
      [] HasFields(f, "MESHLET/1", "LOOKUP", 3) ->
            Checked([type |-> "LOOKUP", node |-> Id(f[3])])
      [] HasFields(f, "MESHLET/1", "ADVERTISE_ROUTE", 5) ->
            Checked([type |-> "ADVERTISE_ROUTE", node |-> Id(f[3]),
                     prefix |-> f[4][1], lease |-> parse_lease(f[5])])
      [] HasFields(f, "MESHLET/1", "ROUTE_LOOKUP", 3) ->
            Checked([type |-> "ROUTE_LOOKUP", destination |-> f[3][1]])
      [] OTHER -> Error

\* Its lookups only: the other requests are built from checked parts.
parse_auth_request(text) ==
    LET f == split_ascii_whitespace(text) IN
    IF HasFields(f, "MESHLET/2", "LOOKUP", 3)
    THEN Checked([type |-> "AUTH_LOOKUP", node |-> Id(f[3])])
    ELSE Error

-----------------------------------------------------------------------------
\* What an identity's key signs.  Keys, challenges and signatures are texts of
\* a fixed length, in hexadecimal but for the signatures of the transcript.
Line(label, value) == <<label>> \o value \o <<"\n">>

registration_signing_message(m) ==
    <<"MESHLET-REGISTER-SIGNATURE/2", "\n">> \o Line("node-id:", m.node)
    \o Line("lease-seconds:", Decimal(m.lease))
    \o Line("challenge:", <<m.challenge>>)

client_signing_message(m) ==
    <<"MESHLET-HANDSHAKE-CLIENT/1", "\n">>
    \o Line("protocol:", <<"MESHLET/3">>) \o Line("initiator:", m.initiator)
    \o Line("responder:", m.responder)
    \o Line("exchange-public:", <<m.client_public>>)

server_signing_message(m) ==
    <<"MESHLET-HANDSHAKE-SERVER/1", "\n">>
    \o Line("protocol:", <<"MESHLET/3">>) \o Line("initiator:", m.initiator)
    \o Line("responder:", m.responder)
    \o Line("client-exchange-public:", <<m.client_public>>)
    \o Line("client-signature:", <<m.client_signature>>)
    \o Line("server-exchange-public:", <<m.server_public>>)

\* What the session keys are derived from.
handshake_transcript(m) ==
    client_signing_message(m) \o <<m.client_signature>>
    \o server_signing_message(m) \o <<m.server_signature>>

\* The messages, of checked node IDs and of values of a fixed length.
Signed(ids, leases, values) ==
    [type : {"registration"}, node : ids, lease : leases, challenge : values]
    \cup [type : {"client"}, initiator : ids, responder : ids,
          client_public : values]
    \cup [type : {"server"}, initiator : ids, responder : ids,
          client_public : values, client_signature : values,
          server_public : values]
    \cup [type : {"transcript"}, initiator : ids, responder : ids,
          client_public : values, client_signature : values,
          server_public : values, server_signature : values]

SignedText(m) ==
    CASE m.type = "registration" -> registration_signing_message(m)
      [] m.type = "client" -> client_signing_message(m)
      [] m.type = "server" -> server_signing_message(m)
      [] m.type = "transcript" -> handshake_transcript(m)
=============================================================================
