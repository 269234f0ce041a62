--------------------------- MODULE MCTransportSetup ---------------------------
EXTENDS TransportSetup, SequencesExt

P(name, value) == [name |-> name, value |-> value]

(* The pair an offer asks for. *)
Asked(o, name) == LET at == {i \in DOMAIN o.params : o.params[i].name = name}
                  IN  IF at = {} THEN <<0, 0>> ELSE o.params[Min(at)].value

Params(o, shift) ==
  CASE o.proto = "UDP" ->
         {P("server_port", <<6000, 6001>>), P("client_port", <<5000, 5001>>),
          P("source", 21), P("source", 0), P("ssrc", 99), P("ttl", 5)}
    [] o.proto = "TCP" ->
         LET ch == Asked(o, "interleaved")
         IN  {P("interleaved", <<ch[1] + shift, ch[2] + shift>>), P("ssrc", 99),
              P("interleaved", <<ch[1] + shift, 256>>), P("source", 21)}
    [] o.proto = "SCTP" ->
         LET st == Asked(o, "streams")
         IN  {P("server_streams", <<st[1] + shift, st[2] + shift>>), P("ssrc", 99),
              P("server_streams", <<MaxStreams, 1>>)}
    [] OTHER -> {}

(* A server that keeps to the offer's protocol and channels, with up to two *)
(* parameters for the first medium and one for the second.                *)
Faithful(o, m) ==
  {[proto |-> o.proto, params |-> s] : s \in SeqOf(Params(o, 0), 3 - m)} \cup {None}

(* One that chooses the channels itself, or the protocol. *)
Chooses(o, m) ==
  {[proto |-> o.proto, params |-> s] : s \in SeqOf(Params(o, 2), 1)}
OtherProtocol(o, m) ==
  {[proto |-> p, params |-> <<>>] : p \in {"UDP", "TCP"}}
=============================================================================
