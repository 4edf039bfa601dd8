------------------------------- MODULE StunMsg -------------------------------
(***************************************************************************)
(* The STUN message codec of src/dtnat (client/ns_turn_msg.c,              *)
(* ns_turn_msg_addr.c, common/stun_buffer.c), used by the TURN server, by  *)
(* p2psh and by dtnat: building a message attribute by attribute, walking  *)
(* it, integrity, fingerprint, addresses, channel messages, and cutting a  *)
(* TCP stream into messages.                                               *)
(*                                                                         *)
(* A buffer is a sequence of 32-bit words, a word a pair <<hi, lo>> of     *)
(* 16-bit halves; offsets and lengths are in bytes, as in the code.        *)
(* Digests (CRC-32, HMAC) are a checksum of the words they cover.          *)
(***************************************************************************)
EXTENDS Integers, SequencesExt

LOCAL INSTANCE Bitwise

CONSTANTS Templates,     \* the messages built (defined by the MC module)
          Frames,        \* the sequences of frames sent on a TCP stream
          Arrivals,      \* how many bytes may arrive at once
          AddrMap        \* <<public, private>> pairs of addresses (words), as configured

VARIABLES msg,           \* the buffer being built, then received
          made,          \* what the builder was asked to put in it
          verdict,       \* what the receiver found
          sent,          \* the frames of the connection: words and bytes used of each
          stream,        \* frames still to be taken from the connection, as words
          arrived,       \* bytes of them in the reader's buffer
          taken          \* frames the reader cut off

vars == <<msg, made, verdict, sent, stream, arrived, taken>>

HeaderLength == 20
MaxMessage == 65507
Cookie == <<8466, 42050>>        \* 0x2112A442
ValidChannel(n) == n \in 16384..32767

Method == [binding |-> 1, allocate |-> 3, refresh |-> 4, send |-> 6, data |-> 7,
           createPermission |-> 8, channelBind |-> 9, connectionAttempt |-> 12]

Attr == [mapped |-> 1, changeRequest |-> 3, username |-> 6, integrity |-> 8, errorCode |-> 9, channelNumber |-> 12,
         lifetime |-> 13, xorPeer |-> 18, data |-> 19, realm |-> 20, nonce |-> 21,
         xorRelayed |-> 22, family |-> 23, evenPort |-> 24, transport |-> 25,
         dontFragment |-> 26, xorMapped |-> 32, token |-> 34, padding |-> 38,
         responsePort |-> 39, software |-> 32802, fingerprint |-> 32808,
         ticket |-> 32814]

AddrAttrs == {Attr.mapped, Attr.xorPeer, Attr.xorRelayed, Attr.xorMapped}
XorAttrs == AddrAttrs \ {Attr.mapped}

RoundUp(n) == 4 * ((n + 3) \div 4)
WordAt(buf, offset) == buf[offset \div 4 + 1]

(*************************** message types ********************************)

\* Twelve bits of method spread around the two class bits, 0x10 and 0x100.
MakeType(m) == (m % 16) + ((m \div 16) % 8) * 32 + ((m \div 128) % 8) * 512
                 + ((m \div 1024) % 4) * 4096

ClassBits == [request |-> 0, indication |-> 16, success |-> 256, error |-> 272]

TypeFor(class, m) == MakeType(m) + ClassBits[class]

MsgType(buf) == buf[1][1] % 16384

GetMethod(buf) ==
  LET t == buf[1][1]
  IN  (t % 16) + ((t \div 32) % 8) * 16 + ((t \div 512) % 8) * 128 + ((t \div 4096) % 4) * 1024

IsChannelMsg(buf) == ValidChannel(buf[1][1])

ClassOf(buf) ==
  IF IsChannelMsg(buf) THEN "channel"
  ELSE CHOOSE c \in DOMAIN ClassBits :
         ClassBits[c] = 16 * ((MsgType(buf) \div 16) % 2) + 256 * ((MsgType(buf) \div 256) % 2)

\* A whole STUN message of exactly blen bytes, with the magic cookie or (old clients) without.
Framed(buf, blen) ==
  /\ blen >= HeaderLength
  /\ ~ValidChannel(buf[1][1])
  /\ buf[1][1] \div 16384 = 0
  /\ buf[1][2] % 4 = 0
  /\ buf[1][2] + HeaderLength = blen

IsCommand(buf, blen) == Framed(buf, blen) /\ buf[2] = Cookie
IsOldCommand(buf, blen) == Framed(buf, blen) /\ buf[2] # Cookie

(*************************** building *************************************)

InitCommand(type, cookie, tid) == <<<<type % 16384, 0>>, cookie>> \o tid

MessageLen(buf) == buf[1][2] + HeaderLength
SetMessageLen(buf, len) == [buf EXCEPT ![1] = <<buf[1][1], len - HeaderLength>>]

AttrAdd(buf, type, value, alen) ==
  LET clen == MessageLen(buf)
      newlen == RoundUp(clen + 4 + alen)
  IN  IF newlen >= MaxMessage THEN buf
      ELSE SetMessageLen(SubSeq(buf, 1, clen \div 4) \o <<<<type, alen>>>> \o value, newlen)

XorWord(a, b) == <<a[1] ^^ b[1], a[2] ^^ b[2]>>

\* Configured public/private pairs replace the IP and keep the port.
Mapped(addr, from, to) ==
  LET i == SelectInSeq(AddrMap, LAMBDA p : p[from] = addr.ip)
  IN  IF i = 0 THEN addr ELSE [addr EXCEPT !.ip = AddrMap[i][to]]
PrivateToPublic(addr) == Mapped(addr, 2, 1)
PublicToPrivate(addr) == Mapped(addr, 1, 2)

AddrEncode(addr, xored, tid) ==
  LET mask == <<Cookie>> \o tid
      family == IF Len(addr.ip) = 1 THEN 1 ELSE 2
  IN  IF xored
      THEN <<<<family, addr.port ^^ Cookie[1]>>>>
             \o [i \in DOMAIN addr.ip |-> XorWord(addr.ip[i], mask[i])]
      ELSE <<<<family, addr.port>>>> \o addr.ip

AddrAdd(buf, type, addr) ==
  AttrAdd(buf, type, AddrEncode(PrivateToPublic(addr), type \in XorAttrs, SubSeq(buf, 3, 5)),
          4 + 4 * Len(addr.ip))

\* The checksum standing for CRC-32 and for one word of an HMAC.
Digest(words, seed) ==
  FoldLeft(LAMBDA acc, w : (acc * 31 + w[1] * 7 + w[2] + 1) % 65521, seed, words)

FingerprintOver(words) == <<Digest(words, 1), Digest(words, 2)>>
HmacSize(sha) == IF sha = 256 THEN 32 ELSE 20
Hmac(key, sha, words) ==
  [i \in 1..(HmacSize(sha) \div 4) |-> <<Digest(words, 8 * key + i), sha>>]

\* The attribute goes in first, so that the digest covers the final length field.
AddFingerprint(buf) ==
  LET b == AttrAdd(buf, Attr.fingerprint, <<<<0, 0>>>>, 4)
  IN  [b EXCEPT ![Len(b)] = FingerprintOver(SubSeq(b, 1, Len(b) - 2))]

AddIntegrity(buf, key, sha) ==
  LET size == HmacSize(sha)
      b == AttrAdd(buf, Attr.integrity, [i \in 1..(size \div 4) |-> <<0, 0>>], size)
      covered == SubSeq(b, 1, Len(b) - 1 - size \div 4)
  IN  covered \o <<b[Len(covered) + 1]>> \o Hmac(key, sha, covered)

\* One attribute of a template: [t, v, n], or [t, addr].
Add(buf, a) == IF "addr" \in DOMAIN a THEN AddrAdd(buf, a.t, a.addr)
               ELSE AttrAdd(buf, a.t, a.v, a.n)

Raw(t, v, n) == [t |-> t, v |-> v, n |-> n]
AddrOf(t, addr) == [t |-> t, addr |-> addr]

\* Attributes with a meaning of their own, and what they mean.
Says(a, meaning) == [t |-> a.t, v |-> a.v, n |-> a.n, means |-> meaning]
FamilyAttr(f) == Says(Raw(Attr.family, <<<<256 * f, 0>>>>, 4), f)
ChannelAttr(n) == Says(Raw(Attr.channelNumber, <<<<n, 0>>>>, 4), IF ValidChannel(n) THEN n ELSE 0)
EvenPortAttr(v) ==
  Says(Raw(Attr.evenPort, <<<<IF v # 0 THEN 32768 ELSE 0, 0>>>>, 1), v # 0)
TokenAttr(t) == Says(Raw(Attr.token, t, 8), t)
ChangeAttr(ip, port) ==
  Says(Raw(Attr.changeRequest, <<<<0, (IF ip THEN 4 ELSE 0) + (IF port THEN 2 ELSE 0)>>>>, 4),
       <<ip, port>>)
PortAttr(p) == Says(Raw(Attr.responsePort, <<<<p, 0>>>>, 4), p)
PaddingAttr(n) ==
  Says(Raw(Attr.padding, [i \in 1..(RoundUp(n) \div 4) |-> <<0, 0>>], n), n)

\* Error code attribute, padded by hand for old clients; the reason text is one word.
ErrorAttr(code, reasonLen) ==
  [t |-> Attr.errorCode, n |-> RoundUp(4 + reasonLen),
   v |-> <<<<0, 256 * (code \div 100) + (code % 100)>>>>
            \o [i \in 1..(RoundUp(reasonLen) \div 4) |-> <<reasonLen, i>>]]

\* Lifetime written in an Allocate response: 0 is the default, no more than the maximum.
ResponseLifetime(l) == IF l < 1 THEN 600 ELSE IF l > 3600 THEN 3600 ELSE l

\* A message to build: its attributes, an error code, and integrity (sha 1 or 256, with the
\* user's key) and a fingerprint where asked for.
Message(class, method, attrs) ==
  [class |-> class, method |-> method, cookie |-> Cookie, tid |-> <<<<1, 2>>, <<3, 4>>, <<5, 6>>>>,
   attrs |-> attrs, code |-> 0, sha |-> 0, key |-> 1, fingerprint |-> FALSE]

AllocateRequest(lifetime, f, mobile) ==
  Message("request", Method.allocate,
    <<Raw(Attr.transport, <<<<4352, 0>>>>, 4),
      Raw(Attr.lifetime, <<<<0, IF lifetime < 1 THEN 600 ELSE lifetime>>>>, 4)>>
    \o (IF mobile THEN <<Raw(Attr.ticket, <<>>, 0)>> ELSE <<>>)
    \o (IF f = 0 THEN <<>> ELSE <<FamilyAttr(f)>>))

AllocateResponse(relayed, reflexive, lifetime, token, ticket, code) ==
  IF code # 0 THEN [Message("error", Method.allocate, <<>>) EXCEPT !.code = code]
  ELSE Message("success", Method.allocate,
         <<AddrOf(Attr.xorRelayed, relayed), AddrOf(Attr.xorMapped, reflexive)>>
         \o (IF token = <<>> THEN <<>> ELSE <<TokenAttr(token)>>)
         \o <<Raw(Attr.lifetime, <<<<0, ResponseLifetime(lifetime)>>>>, 4)>>
         \o (IF ticket = <<>> THEN <<>> ELSE <<Raw(Attr.ticket, ticket, 4 * Len(ticket) - 1)>>))

\* An invalid number is replaced by a random valid one.
ChannelBindRequest(n, peer) ==
  Message("request", Method.channelBind,
    <<ChannelAttr(IF ValidChannel(n) THEN n ELSE 20000), AddrOf(Attr.xorPeer, peer)>>)

\* Old clients get the plain address only, and their own cookie back.
BindingResponse(reflexive, code, cookie) ==
  [Message(IF code # 0 THEN "error" ELSE "success", Method.binding,
     IF code # 0 THEN <<>>
     ELSE (IF cookie = Cookie THEN <<AddrOf(Attr.xorMapped, reflexive)>> ELSE <<>>)
            \o <<AddrOf(Attr.mapped, reflexive)>>)
   EXCEPT !.code = code, !.cookie = cookie]

\* Signing for a user adds the name, the nonce and the realm, again if they are there.
SignedBy(m, name, nonce, realm, key, sha) ==
  [m EXCEPT !.attrs = m.attrs \o <<Raw(Attr.username, name, 4 * Len(name) - 1),
                                   Raw(Attr.nonce, nonce, 4 * Len(nonce)),
                                   Raw(Attr.realm, realm, 4 * Len(realm) - 3)>>,
            !.key = key, !.sha = sha]

Attributes(m) ==
  (IF m.code # 0 THEN <<ErrorAttr(m.code, 5)>> ELSE <<>>) \o m.attrs

BuildMessage(m) ==
  LET plain == FoldLeft(Add, InitCommand(TypeFor(m.class, m.method), m.cookie, m.tid), Attributes(m))
      signed == IF m.sha = 0 THEN plain ELSE AddIntegrity(plain, m.key, m.sha)
  IN  IF m.fingerprint THEN AddFingerprint(signed) ELSE signed

(*************************** reading **************************************)

AttrType(buf, o) == WordAt(buf, o)[1]
AttrLen(buf, o) == WordAt(buf, o)[2]
AttrValue(buf, o) == SubSeq(buf, o \div 4 + 2, o \div 4 + 1 + RoundUp(AttrLen(buf, o)) \div 4)

\* Offsets of attributes; 0 is the null reference.
FirstAttr(buf) == IF MessageLen(buf) > HeaderLength THEN HeaderLength ELSE 0

\* Mutant of NextAttr: the padding of the attribute is not skipped.
NextAttrUnpadded(buf, prev) ==
  LET after == prev + 4 + 4 * (AttrLen(buf, prev) \div 4)
  IN  IF after < MessageLen(buf) THEN after ELSE 0

NextAttr(buf, prev) ==
  LET after == prev + 4 + RoundUp(AttrLen(buf, prev))
  IN  IF after < MessageLen(buf) THEN after ELSE 0

AttrOffsets(buf) ==
  LET from[o \in 0..MessageLen(buf)] == IF o = 0 THEN <<>> ELSE <<o>> \o from[NextAttr(buf, o)]
  IN  from[FirstAttr(buf)]

FirstByType(buf, type) ==
  LET os == AttrOffsets(buf)
      i == SelectInSeq(os, LAMBDA o : AttrType(buf, o) = type)
  IN  IF i = 0 THEN 0 ELSE os[i]

NoAddr == [ip |-> <<>>, port |-> 0]

AddrDecode(buf, o) ==
  LET v == AttrValue(buf, o)
      xored == AttrType(buf, o) \in XorAttrs
      mask == <<Cookie>> \o SubSeq(buf, 3, 5)
      size == IF v[1][1] = 1 THEN 8 ELSE 20
  IN  IF AttrLen(buf, o) < 8 \/ v[1][1] \notin {1, 2} \/ AttrLen(buf, o) # size THEN NoAddr
      ELSE IF xored
      THEN PublicToPrivate([port |-> v[1][2] ^^ Cookie[1],
                            ip |-> [i \in 1..(Len(v) - 1) |-> XorWord(v[i + 1], mask[i])]])
      ELSE PublicToPrivate([port |-> v[1][2], ip |-> Tail(v)])

\* A wildcard address stands for the session's default peer, with its own port.
AddrOr(addr, default) ==
  IF default # NoAddr /\ \A i \in DOMAIN addr.ip : addr.ip[i] = <<0, 0>>
  THEN [addr EXCEPT !.ip = default.ip] ELSE addr

FirstAddr(buf, type, default) ==
  LET os == SelectSeq(AttrOffsets(buf),
                      LAMBDA o : AttrType(buf, o) = type /\ AddrDecode(buf, o) # NoAddr)
  IN  IF type \notin AddrAttrs \/ os = <<>> THEN NoAddr ELSE AddrOr(AddrDecode(buf, os[1]), default)

RequestedFamily(buf, o) ==
  IF AttrLen(buf, o) # 4 \/ AttrValue(buf, o)[1][1] \div 256 \notin {1, 2} THEN -1
  ELSE AttrValue(buf, o)[1][1] \div 256

ChannelNumber(buf, o) ==
  IF AttrLen(buf, o) >= 2 /\ ValidChannel(AttrValue(buf, o)[1][1]) THEN AttrValue(buf, o)[1][1] ELSE 0

\* The first valid one: an attribute with another number is passed over.
FirstChannelNumber(buf) ==
  LET os == SelectSeq(AttrOffsets(buf), LAMBDA o : AttrType(buf, o) = Attr.channelNumber
                                                     /\ ChannelNumber(buf, o) # 0)
  IN  IF os = <<>> THEN 0 ELSE ChannelNumber(buf, os[1])

EvenPort(buf, o) == AttrLen(buf, o) >= 1 /\ AttrValue(buf, o)[1][1] >= 32768

ReservationToken(buf, o) == IF AttrLen(buf, o) = 8 THEN AttrValue(buf, o) ELSE <<>>

\* <<change IP, change port>>: bits 4 and 2 of the last byte.
ChangeRequest(buf, o) ==
  LET low == AttrValue(buf, o)[1][2]
  IN  IF AttrLen(buf, o) # 4 THEN <<>> ELSE <<(low \div 4) % 2 = 1, (low \div 2) % 2 = 1>>

ResponsePort(buf, o) == IF AttrLen(buf, o) >= 2 THEN AttrValue(buf, o)[1][1] ELSE -1

\* What the server makes of an attribute, for the types that have a reader of their own.
Meaning(buf, o) ==
  CASE AttrType(buf, o) = Attr.family -> RequestedFamily(buf, o)
    [] AttrType(buf, o) = Attr.channelNumber -> ChannelNumber(buf, o)
    [] AttrType(buf, o) = Attr.evenPort -> EvenPort(buf, o)
    [] AttrType(buf, o) = Attr.token -> ReservationToken(buf, o)
    [] AttrType(buf, o) = Attr.changeRequest -> ChangeRequest(buf, o)
    [] AttrType(buf, o) = Attr.responsePort -> ResponsePort(buf, o)
    [] AttrType(buf, o) = Attr.padding -> AttrLen(buf, o)
    [] OTHER -> <<>>

ErrorCode(buf) ==
  LET o == FirstByType(buf, Attr.errorCode)
      v == AttrValue(buf, o)
  IN  IF ClassOf(buf) # "error" \/ o = 0 \/ AttrLen(buf, o) < 4 THEN 0
      ELSE 100 * (v[1][2] \div 256) + (v[1][2] % 256)

\* Realm and nonce of a challenge: what the client signs its next request with.
Challenge(buf) ==
  LET r == FirstByType(buf, Attr.realm)
      n == FirstByType(buf, Attr.nonce)
  IN  IF ErrorCode(buf) \in {401, 438} /\ r # 0 /\ n # 0
      THEN <<AttrValue(buf, r), AttrValue(buf, n)>> ELSE <<>>

\* A command whose fingerprint, if it has one, is right.
FullCheck(buf, blen) ==
  LET o == FirstByType(buf, Attr.fingerprint)
  IN  /\ IsCommand(buf, blen)
      /\ o # 0 => /\ AttrLen(buf, o) = 4
                  /\ AttrValue(buf, o) = <<FingerprintOver(SubSeq(buf, 1, o \div 4))>>

\* Mutant of CheckIntegrity: the length field is not cut back.
CheckIntegrityWhole(buf, key, sha) ==
  LET o == FirstByType(buf, Attr.integrity)
      size == AttrLen(buf, o)
  IN  IF o = 0 \/ size # HmacSize(sha)
      THEN [result |-> "fail", weak |-> o # 0 /\ size = 20 /\ sha = 256]
      ELSE [result |-> IF AttrValue(buf, o) = Hmac(key, sha, SubSeq(buf, 1, o \div 4))
                       THEN "right" ELSE "wrong",
            weak |-> FALSE]

\* The length field is cut back to the integrity attribute while the digest is computed.
\* "right", "wrong" or "fail" (no attribute, or another digest than the server asks for).
CheckIntegrity(buf, key, sha) ==
  LET o == FirstByType(buf, Attr.integrity)
      size == AttrLen(buf, o)
      newlen == o + 4 + size
      cut == SetMessageLen(buf, newlen)
  IN  IF o = 0 \/ size # HmacSize(sha) \/ newlen > MessageLen(buf)
      THEN [result |-> "fail", weak |-> o # 0 /\ size = 20 /\ sha = 256]
      ELSE [result |-> IF AttrValue(buf, o) = Hmac(key, sha, SubSeq(cut, 1, o \div 4))
                       THEN "right" ELSE "wrong",
            weak |-> FALSE]

(*************************** channels and streams *************************)

\* A channel message of len bytes of data: [w, n], n the bytes sent.
ChannelMessage(chn, len, padded) ==
  [w |-> <<<<chn, len>>>> \o [i \in 1..(RoundUp(len) \div 4) |-> <<len, i>>],
   n |-> 4 + (IF padded THEN RoundUp(len) ELSE len)]

\* Length of the channel message in a datagram of blen bytes, or 0 when it is none.
ChannelLen(w, blen, mandatoryPadding) ==
  LET actual == blen - 4
      header == w[1][2]
  IN  IF blen < 4 \/ ~ValidChannel(w[1][1]) \/ header > actual THEN 0
      ELSE IF header # actual /\ actual % 4 # 0
              /\ (mandatoryPadding \/ header = 0 \/ actual - header > 3) THEN 0
      ELSE header + 4

GetWord == <<18245, 21536>>      \* "GET "
HttpWord == <<18516, 21584>>     \* "HTTP"
EndWord == <<3338, 3338>>        \* "\r\n\r\n"
HttpGet == [w |-> <<GetWord, <<12064, 8224>>, HttpWord, EndWord>>, n |-> 16]

\* Length of an HTTP GET request at the head of the n bytes of w, 0 when there is none.
HttpLen(w, n) ==
  LET here == SubSeq(w, 1, n \div 4)
      h == SelectInSeq(here, LAMBDA x : x = HttpWord)
      e == SelectInSeq(here, LAMBDA x : x = EndWord)
  IN  IF n >= 12 /\ w[1] = GetWord /\ h # 0 /\ e > h THEN 4 * e ELSE 0

\* Mutant of StreamMessage: the padding of a channel message is left in the stream.
StreamMessageUnpadded(w, n) ==
  LET stun == MessageLen(w)
      http == HttpLen(w, n)
      channel == 4 + w[1][2]
  IN  IF /\ n >= HeaderLength /\ ~ValidChannel(w[1][1]) /\ w[1][1] \div 16384 = 0
         /\ w[2] = Cookie /\ w[1][2] % 4 = 0 /\ stun <= n
      THEN [n |-> stun, app |-> stun]
      ELSE IF http > 0 THEN [n |-> http, app |-> http]
      ELSE IF n >= 4 /\ ValidChannel(w[1][1]) /\ channel <= n
      THEN [n |-> 4 * (channel \div 4), app |-> channel]
      ELSE [n |-> -1, app |-> 0]

\* [n, app]: bytes of the message at the head of the stream, padding included and not;
\* n is -1 when it is not all there yet.
StreamMessage(w, n) ==
  LET stun == MessageLen(w)
      http == HttpLen(w, n)
      channel == 4 + w[1][2]
  IN  IF /\ n >= HeaderLength /\ ~ValidChannel(w[1][1]) /\ w[1][1] \div 16384 = 0
         /\ w[2] = Cookie /\ w[1][2] % 4 = 0 /\ stun <= n
      THEN [n |-> stun, app |-> stun]
      ELSE IF http > 0 THEN [n |-> http, app |-> http]
      ELSE IF n >= 4 /\ ValidChannel(w[1][1]) /\ RoundUp(channel) <= n
      THEN [n |-> RoundUp(channel), app |-> channel]
      ELSE [n |-> -1, app |-> 0]

(*************************** behaviour ************************************)

None == [class |-> "none"]   \* nothing built
Unread == [kind |-> "unread"]
Unchecked == [result |-> "fail", weak |-> FALSE]

Init ==
  /\ msg = <<>> /\ made = None /\ verdict = Unread
  /\ arrived = 0 /\ taken = <<>>
  /\ sent \in Frames
  /\ stream = FlattenSeq([i \in DOMAIN sent |-> sent[i].w])

Build(m) ==
  /\ made = None
  /\ made' = m
  /\ msg' = IF m.class = "channel" THEN ChannelMessage(m.chn, m.len, m.padded).w
            ELSE BuildMessage(m)
  /\ UNCHANGED <<verdict, sent, stream, arrived, taken>>

Bytes == IF made.class = "channel" THEN ChannelMessage(made.chn, made.len, made.padded).n
         ELSE 4 * Len(msg)

\* The receiver checks a datagram as ns_turn_server.c does: a channel message, else a
\* command with its fingerprint, else an old client's; then the integrity with its key.
Receive(key, sha, tcp) ==
  LET channel == ChannelLen(msg, Bytes, tcp)
      command == channel = 0 /\ FullCheck(msg, Bytes)
  IN  /\ made # None /\ verdict = Unread
      /\ verdict' = [key |-> key, sha |-> sha, tcp |-> tcp,
                     kind |-> IF channel > 0 THEN "channel" ELSE IF command THEN "command"
                              ELSE IF IsOldCommand(msg, Bytes) THEN "old" ELSE "other",
                     channel |-> channel,
                     integrity |-> IF command THEN CheckIntegrity(msg, key, sha) ELSE Unchecked]
      /\ UNCHANGED <<msg, made, sent, stream, arrived, taken>>

\* The reader cuts off one message as soon as it is complete.
Take(n) ==
  LET f == StreamMessage(stream, n)
  IN  /\ f.n >= 0
      /\ taken' = Append(taken, [w |-> SubSeq(stream, 1, f.n \div 4), n |-> f.app])
      /\ stream' = SubSeq(stream, f.n \div 4 + 1, Len(stream))
      /\ arrived' = n - f.n

Arrive ==
  /\ stream # <<>> /\ arrived < 4 * Len(stream)
  /\ \E k \in Arrivals :
       LET n == IF arrived + k > 4 * Len(stream) THEN 4 * Len(stream) ELSE arrived + k
       IN  \/ Take(n)
           \/ StreamMessage(stream, n).n < 0 /\ arrived' = n /\ UNCHANGED <<stream, taken>>
  /\ UNCHANGED <<msg, made, verdict, sent>>

\* What already arrived may hold the next message.
TakeNext ==
  /\ stream # <<>> /\ arrived > 0
  /\ Take(arrived)
  /\ UNCHANGED <<msg, made, verdict, sent>>

Next ==
  \/ \E m \in Templates : Build(m)
  \/ \E key \in {1, 2}, sha \in {1, 256}, tcp \in BOOLEAN : Receive(key, sha, tcp)
  \/ Arrive
  \/ TakeNext

Spec == Init /\ [][Next]_vars

(*************************** properties ***********************************)

Expected(m) ==
  Attributes(m)
    \o (IF m.sha = 0 THEN <<>> ELSE <<[t |-> Attr.integrity, n |-> HmacSize(m.sha)]>>)
    \o (IF m.fingerprint THEN <<[t |-> Attr.fingerprint, n |-> 4]>> ELSE <<>>)

SameAttr(buf, o, a) ==
  /\ AttrType(buf, o) = a.t
  /\ "n" \in DOMAIN a => AttrLen(buf, o) = a.n
  /\ "v" \in DOMAIN a => AttrValue(buf, o) = a.v
  /\ "addr" \in DOMAIN a => AddrDecode(buf, o) = a.addr
  /\ "means" \in DOMAIN a => Meaning(buf, o) = a.means

\* A message reads back as it was built: its method, class and transaction, and every
\* attribute, in order and none besides, whatever their lengths and the padding between
\* them, addresses unmasked and mapped back (ns_turn_msg.c:896-1140, ns_turn_msg_addr.c).
ReadBack ==
  made # None /\ made.class # "channel" =>
    LET os == AttrOffsets(msg)
        want == Expected(made)
    IN  /\ ClassOf(msg) = made.class /\ GetMethod(msg) = made.method
        /\ SubSeq(msg, 3, 5) = made.tid /\ msg[2] = made.cookie
        /\ Len(os) = Len(want)
        /\ \A i \in DOMAIN os : SameAttr(msg, os[i], want[i])
        /\ \A i \in DOMAIN want : "addr" \in DOMAIN want[i] =>
             \E j \in 1..i : want[j].t = want[i].t /\ FirstAddr(msg, want[i].t, NoAddr) = want[j].addr
        /\ ErrorCode(msg) = made.code
        /\ LET valid == SelectSeq(want, LAMBDA a : a.t = Attr.channelNumber /\ a.means # 0)
           IN  FirstChannelNumber(msg) = IF valid = <<>> THEN 0 ELSE valid[1].means
        /\ made.code \in {401, 438} => Challenge(msg) # <<>>

\* The receiver takes a datagram for what it is: a channel message, with its length but for
\* the padding, a command, or an old client's message;
\* and integrity is right exactly for the key and the digest the sender used, with a
\* fingerprint after it or not (ns_turn_msg.c:173-236, 485-530, 1345-1478).
JudgedRight ==
  verdict # Unread =>
    IF made.class = "channel"
    THEN verdict.kind = "channel" /\ verdict.channel = made.len + 4
    ELSE /\ verdict.kind = (IF made.cookie = Cookie THEN "command" ELSE "old")
         /\ made.cookie = Cookie =>
              verdict.integrity =
                [result |-> IF made.sha # verdict.sha THEN "fail"
                            ELSE IF made.key = verdict.key THEN "right" ELSE "wrong",
                 weak |-> made.sha = 1 /\ verdict.sha = 256]

\* A TCP stream of commands, padded channel messages and HTTP requests is cut exactly where
\* the messages were joined, however the bytes arrive, and nothing complete is left waiting
\* (ns_turn_msg.c:591-650).
StreamCutRight ==
  /\ taken = SubSeq(sent, 1, Len(taken))
  /\ stream = FlattenSeq([i \in 1..(Len(sent) - Len(taken)) |-> sent[Len(taken) + i].w])
  /\ stream # <<>> /\ arrived = 4 * Len(stream) => StreamMessage(stream, arrived).n > 0
==============================================================================
