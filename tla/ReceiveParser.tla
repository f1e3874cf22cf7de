--------------------------- MODULE ReceiveParser ---------------------------
(***************************************************************************)
(* gitproto.ParseReceivePack: the pkt-line parser that reads, from an      *)
(* untrusted client, exactly the part of a receive-pack request that comes *)
(* before the pack data, and the push policy applied to the ref updates it *)
(* found.  Only a prefix that is accepted here is ever forwarded to the    *)
(* provider, so what matters is that the updates the policy saw are the    *)
(* updates the provider's receive-pack will see in the same bytes.         *)
(*                                                                         *)
(* A packet is a record that says what its payload reads as.  One step     *)
(* reads one packet; the client may stop sending, or send what no rule     *)
(* takes, at any point.                                                    *)
(***************************************************************************)
EXTENDS Naturals, Sequences

CONSTANTS
  Oid,             \* object IDs: [width, id, upper]; id "0" is the zero ID
  Update,          \* ref updates a client may send: [old, new, ref]
  Value,           \* texts of certificate headers and push options
  Ident,           \* the values that read as a pusher identity
  Text,            \* the values valid as certificate text
  Printable,       \* the values valid as push options
  Envelope,        \* the kinds of signature
  CapList,         \* capability lists: sequences of [name, value]
  Advertisements,  \* capabilities a provider may advertise: name -> value
  ValidRef,        \* refs that gitproto.validRef accepts
  PolicyRef,       \* refs that policy.validRef accepts
  DenyRefs, DenyDeletes, MaxRefUpdates,  \* config.PushPolicy
  MaxPrefixBytes, MaxCommands,           \* ReceiveOptions
  Payload          \* bytes of payload, by kind of packet

Plain == {"flush", "version", "blank", "text", "cert_end"}
Packet ==
  [kind : Plain]
  \cup [kind : {"shallow"}, oid : Oid]
  \cup [kind : {"first"}, update : Update, list : CapList]
  \cup [kind : {"push-cert"}, list : CapList]
  \cup [kind : {"header"}, field : {"pusher", "pushee", "nonce", "push-option"}, value : Value]
  \cup [kind : {"command"}, update : Update]
  \cup [kind : {"begin", "end"}, envelope : Envelope]
  \cup [kind : {"option"}, value : Value]
Kinds == Plain \cup {"shallow", "first", "push-cert", "header", "command", "begin", "end", "option"}

ASSUME ReceiveAssumption ==
  /\ \A o \in Oid : o.width \in Nat /\ o.upper \in BOOLEAN
  /\ \A u \in Update : u.old \in Oid /\ u.new \in Oid
  /\ "" \notin Envelope
  /\ MaxRefUpdates \in Nat /\ MaxCommands \in Nat \ {0} /\ MaxPrefixBytes \in Nat
  /\ DenyDeletes \in BOOLEAN
  /\ Payload \in [Kinds -> Nat] /\ Payload["flush"] = 0

VARIABLES
  advertised,  \* ReceiveOptions.AdvertisedCaps
  expects,     \* the packet the parser expects next, or its result
  raw,         \* packetReader.raw: every packet read so far
  used,        \* its length in bytes
  requested,   \* receiveParser.capabilities
  updates,     \* receiveParser.updates; seenRefs are their refs
  shallows,    \* receiveParser.shallowIDs; seenShallows are their lower-case forms
  oidWidth,    \* receiveParser.oidWidth
  signed,      \* the request is a push certificate
  nextRequired, headerOptions,  \* locals of parseCertificateHeaders
  signatureEnd, signatureEnded, signatureContent,  \* locals of parseCertificateBody
  trailing     \* trailingOptions of parsePushOptions

readVars == <<raw, used>>
headVars == <<nextRequired, headerOptions>>
bodyVars == <<signatureEnd, signatureEnded, signatureContent>>
certVars == <<headVars, bodyVars>>
parserVars == <<advertised, expects, readVars, requested, updates, shallows, oidWidth, signed, certVars, trailing>>

Parsing == {"start", "commands", "version", "headers", "body", "cert_flush", "options"}

ParserTypeOK ==
  /\ expects \in Parsing \cup {"accepted", "denied", "invalid"}
  /\ raw \in Seq(Packet) /\ used \in Nat
  /\ updates \in Seq(Update)
  /\ shallows \subseteq Oid
  /\ oidWidth \in {0, 40, 64}
  /\ signed \in BOOLEAN
  /\ nextRequired \in 0..3 /\ headerOptions \in Seq(Printable)
  /\ signatureEnd \in Envelope \cup {""}
  /\ signatureEnded \in BOOLEAN /\ signatureContent \in BOOLEAN
  /\ trailing \in Seq(Printable)

ParserInit ==
  /\ advertised \in Advertisements
  /\ expects = "start" /\ raw = <<>> /\ used = 0
  /\ requested = << >> /\ updates = <<>> /\ shallows = {} /\ oidWidth = 0
  /\ signed = FALSE /\ trailing = <<>>
  /\ nextRequired = 0 /\ headerOptions = <<>>
  /\ signatureEnd = "" /\ signatureEnded = FALSE /\ signatureContent = FALSE

-----------------------------------------------------------------------------
(* Capabilities and object IDs.                                            *)

Has(caps, name) == name \in DOMAIN caps
ValueOf(caps, name) == IF Has(caps, name) THEN caps[name] ELSE ""

(* A token that is empty, or has an invalid character or an empty          *)
(* parameter, has the name "".                                             *)
ListOK(list) ==
  /\ \A i \in DOMAIN list : list[i].name # ""
  /\ \A i, j \in DOMAIN list : list[i].name = list[j].name => i = j
ParseCapabilities(list) ==
  [name \in {list[i].name : i \in DOMAIN list} |->
     (CHOOSE t \in {list[i] : i \in DOMAIN list} : t.name = name).value]

ValidateRequestedCapabilities(caps) ==
  \A name \in DOMAIN caps :
    /\ Has(advertised, name)
    /\ CASE name \in {"agent", "session-id"} -> advertised[name] # "" /\ caps[name] # ""
         [] name \in {"push-cert", "object-format"} -> caps[name] # "" /\ caps[name] = advertised[name]
         [] OTHER -> caps[name] = advertised[name]

RequestedWidth(caps) ==
  CASE ~Has(caps, "object-format") -> 40
    [] caps["object-format"] = "sha1" /\ ValueOf(advertised, "object-format") = "sha1" -> 40
    [] caps["object-format"] = "sha256" /\ ValueOf(advertised, "object-format") = "sha256" -> 64
    [] OTHER -> 0   \* unsupported requested object format
ShallowsFit(width) == \A o \in shallows : o.width = width
negotiateObjectIDWidth(caps) ==
  /\ RequestedWidth(caps) # 0
  /\ ShallowsFit(RequestedWidth(caps))
  /\ oidWidth' = RequestedWidth(caps)

validObjectID(o) == o.width \in {40, 64}
isZeroObjectID(o) == o.id = "0"
ToLower(o) == [o EXCEPT !.upper = FALSE]

-----------------------------------------------------------------------------
(* Reading a packet, and the end of the parse.                             *)

Cost(pkt) == 4 + Payload[pkt.kind]
WithinPrefix(pkt) == used + Cost(pkt) <= MaxPrefixBytes
read(pkt) ==
  /\ WithinPrefix(pkt)
  /\ raw' = Append(raw, pkt)
  /\ used' = used + Cost(pkt)

FirstUpdateOnly(us) ==   \* mutant: later updates are not looked at
  us # <<>> => us[1].ref \notin DenyRefs /\ ~(DenyDeletes /\ isZeroObjectID(us[1].new))
ValidatePush(us) ==
  /\ Len(us) <= MaxRefUpdates
  /\ \A i \in DOMAIN us :
       /\ us[i].ref \in PolicyRef
       /\ validObjectID(us[i].old) /\ validObjectID(us[i].new) /\ us[i].old.width = us[i].new.width
       /\ us[i].ref \notin DenyRefs
       /\ ~(DenyDeletes /\ isZeroObjectID(us[i].new))

FinishParse(us) == expects' = IF ValidatePush(us) THEN "accepted" ELSE "denied"

(* The client goes away or sends a packet that none of the rules below     *)
(* takes, in this state, under these limits: ParseReceivePack fails and    *)
(* returns nothing of what it read.                                        *)
Invalid ==
  /\ expects \in Parsing
  /\ expects' = "invalid"
  /\ UNCHANGED <<advertised, readVars, requested, updates, shallows, oidWidth, signed, certVars, trailing>>

-----------------------------------------------------------------------------
(* The shallow declarations, the first command or the certificate preamble.*)

addShallow(pkt) ==
  /\ expects = "start" /\ pkt.kind = "shallow"
  /\ read(pkt)
  /\ validObjectID(pkt.oid)
  /\ \A o \in shallows : ToLower(o) # ToLower(pkt.oid)
  /\ shallows' = shallows \cup {pkt.oid}
  /\ UNCHANGED <<advertised, expects, requested, updates, oidWidth, signed, certVars, trailing>>

RefIsNew(u) == \A i \in DOMAIN updates : updates[i].ref # u.ref
DeleteAllowed(u) == isZeroObjectID(u.new) => Has(advertised, "delete-refs")

(* The checks of addCommand, for the object ID width in force.             *)
CommandOK(u, width) ==
  /\ Len(updates) < MaxCommands
  /\ validObjectID(u.old) /\ validObjectID(u.new)
  /\ u.old.width = width /\ u.new.width = width
  /\ DeleteAllowed(u)
  /\ u.ref \in ValidRef
  /\ RefIsNew(u)
addCommand(u, width) ==
  /\ CommandOK(u, width)
  /\ updates' = Append(updates, u)

Preamble(list) ==
  /\ ListOK(list)
  /\ ValidateRequestedCapabilities(ParseCapabilities(list))
  /\ negotiateObjectIDWidth(ParseCapabilities(list))
  /\ requested' = ParseCapabilities(list)

parseFirstCommand(pkt) ==
  /\ expects = "start" /\ pkt.kind = "first"
  /\ read(pkt)
  /\ Preamble(pkt.list)
  /\ addCommand(pkt.update, oidWidth')
  /\ expects' = "commands"
  /\ UNCHANGED <<advertised, shallows, signed, certVars, trailing>>

validatePushCertificate == ValueOf(advertised, "push-cert") # ""

parseCertificate(pkt) ==
  /\ expects = "start" /\ pkt.kind = "push-cert"
  /\ read(pkt)
  /\ Preamble(pkt.list)
  /\ validatePushCertificate
  /\ signed' = TRUE /\ expects' = "version"
  /\ UNCHANGED <<advertised, updates, shallows, certVars, trailing>>

-----------------------------------------------------------------------------
(* An unsigned command list.                                               *)

parseCommand(pkt) ==
  /\ expects = "commands" /\ pkt.kind = "command"
  /\ read(pkt)
  /\ addCommand(pkt.update, oidWidth)
  /\ UNCHANGED <<advertised, expects, requested, shallows, oidWidth, signed, certVars, trailing>>

(* parsePushOptions: a section of push options follows exactly when the    *)
(* client selected the capability.                                         *)
NeverFollow == FALSE   \* mutant: the option section is taken for pack data
OptionsFollow == Has(requested, "push-options")
BeginOptions ==
  IF OptionsFollow THEN Has(advertised, "push-options") /\ expects' = "options"
                   ELSE (signed => headerOptions = <<>>) /\ FinishParse(updates)

EndCommands(pkt) ==
  /\ expects = "commands" /\ pkt.kind = "flush"
  /\ read(pkt)
  /\ BeginOptions
  /\ UNCHANGED <<advertised, requested, updates, shallows, oidWidth, signed, certVars, trailing>>

-----------------------------------------------------------------------------
(* A push certificate.                                                     *)

expectVersion(pkt) ==
  /\ expects = "version" /\ pkt.kind = "version"
  /\ read(pkt)
  /\ expects' = "headers"
  /\ UNCHANGED <<advertised, requested, updates, shallows, oidWidth, signed, certVars, trailing>>

Required == <<"pusher", "pushee", "nonce">>
validRequiredCertificateHeader(field, value) ==
  CASE field = "pusher" -> value \in Ident
    [] field \in {"pushee", "nonce"} -> value \in Text
    [] OTHER -> FALSE
NonceMatches(pkt) == pkt.field = "nonce" => pkt.value = advertised["push-cert"]

RequiredHeader(pkt) ==
  /\ expects = "headers" /\ pkt.kind = "header"
  /\ read(pkt)
  /\ nextRequired < 3
  /\ pkt.field = Required[nextRequired + 1]
  /\ validRequiredCertificateHeader(pkt.field, pkt.value)
  /\ NonceMatches(pkt)
  /\ nextRequired' = nextRequired + 1
  /\ UNCHANGED <<advertised, expects, requested, updates, shallows, oidWidth, signed,
                headerOptions, bodyVars, trailing>>

validPushOption(value) == value \in Printable

HeaderOption(pkt) ==
  /\ expects = "headers" /\ pkt.kind = "header"
  /\ read(pkt)
  /\ nextRequired = 3
  /\ pkt.field = "push-option"
  /\ Has(requested, "push-options") /\ Has(advertised, "push-options")
  /\ validPushOption(pkt.value)
  /\ headerOptions' = Append(headerOptions, pkt.value)
  /\ UNCHANGED <<advertised, expects, requested, updates, shallows, oidWidth, signed,
                nextRequired, bodyVars, trailing>>

EndHeaders(pkt) ==
  /\ expects = "headers" /\ pkt.kind = "blank"
  /\ read(pkt)
  /\ nextRequired = 3
  /\ expects' = "body"
  /\ UNCHANGED <<advertised, requested, updates, shallows, oidWidth, signed, certVars, trailing>>

Anywhere == TRUE   \* mutant: a line of the signature is read as a command
BeforeSignature == signatureEnd = ""

CertificateCommand(pkt) ==
  /\ expects = "body" /\ pkt.kind = "command"
  /\ read(pkt)
  /\ BeforeSignature
  /\ addCommand(pkt.update, oidWidth)
  /\ UNCHANGED <<advertised, expects, requested, shallows, oidWidth, signed, certVars, trailing>>

SignatureBegin(pkt) ==
  /\ expects = "body" /\ pkt.kind = "begin"
  /\ read(pkt)
  /\ signatureEnd = ""
  /\ signatureEnd' = pkt.envelope
  /\ UNCHANGED <<advertised, expects, requested, updates, shallows, oidWidth, signed,
                headVars, signatureEnded, signatureContent, trailing>>

SignatureEnd(pkt) ==
  /\ expects = "body" /\ pkt.kind = "end"
  /\ read(pkt)
  /\ signatureEnd = pkt.envelope /\ ~signatureEnded
  /\ signatureEnded' = TRUE
  /\ UNCHANGED <<advertised, expects, requested, updates, shallows, oidWidth, signed,
                headVars, signatureEnd, signatureContent, trailing>>

(* Inside the envelope a line that looks like a command, or the delimiter  *)
(* of another kind of signature, is content like any other.                *)
SignatureLine(pkt) ==
  /\ expects = "body" /\ pkt.kind \in {"text", "blank", "command", "begin", "end"}
  /\ read(pkt)
  /\ signatureEnd # "" /\ ~signatureEnded
  /\ pkt.kind = "end" => pkt.envelope # signatureEnd
  /\ signatureContent' = (signatureContent \/ pkt.kind # "blank")
  /\ UNCHANGED <<advertised, expects, requested, updates, shallows, oidWidth, signed,
                headVars, signatureEnd, signatureEnded, trailing>>

SignatureComplete == updates # <<>> /\ signatureEnd # "" /\ signatureEnded /\ signatureContent

EndCertificate(pkt) ==
  /\ expects = "body" /\ pkt.kind = "cert_end"
  /\ read(pkt)
  /\ SignatureComplete
  /\ expects' = "cert_flush"
  /\ UNCHANGED <<advertised, requested, updates, shallows, oidWidth, signed, certVars, trailing>>

CertificateFlush(pkt) ==
  /\ expects = "cert_flush" /\ pkt.kind = "flush"
  /\ read(pkt)
  /\ BeginOptions
  /\ UNCHANGED <<advertised, requested, updates, shallows, oidWidth, signed, certVars, trailing>>

-----------------------------------------------------------------------------
(* The push options after the commands or after the certificate.           *)

PushOption(pkt) ==
  /\ expects = "options" /\ pkt.kind = "option"
  /\ read(pkt)
  /\ validPushOption(pkt.value)
  /\ trailing' = Append(trailing, pkt.value)
  /\ UNCHANGED <<advertised, expects, requested, updates, shallows, oidWidth, signed, certVars>>

CountsAgree == Len(trailing) = Len(headerOptions)   \* mutant: only the counts are compared
OptionsAgree == trailing = headerOptions

EndOptions(pkt) ==
  /\ expects = "options" /\ pkt.kind = "flush"
  /\ read(pkt)
  /\ signed => OptionsAgree
  /\ FinishParse(updates)
  /\ UNCHANGED <<advertised, requested, updates, shallows, oidWidth, signed, certVars, trailing>>

Step(pkt) ==
  \/ addShallow(pkt) \/ parseFirstCommand(pkt) \/ parseCertificate(pkt)
  \/ parseCommand(pkt) \/ EndCommands(pkt)
  \/ expectVersion(pkt) \/ RequiredHeader(pkt) \/ HeaderOption(pkt) \/ EndHeaders(pkt)
  \/ CertificateCommand(pkt) \/ SignatureBegin(pkt) \/ SignatureLine(pkt) \/ SignatureEnd(pkt)
  \/ EndCertificate(pkt) \/ CertificateFlush(pkt)
  \/ PushOption(pkt) \/ EndOptions(pkt)

ParserNext == Invalid \/ \E pkt \in Packet : Step(pkt)
ParserSpec == ParserInit /\ [][ParserNext]_parserVars

-----------------------------------------------------------------------------
(* What the provider's receive-pack takes from the same bytes.  It reads   *)
(* commands up to the first flush, and in a certificate up to the first    *)
(* line that opens a signature.  Newer versions of git look for the last   *)
(* such line; their reading is not modelled.                               *)
EndsCommands(pkt) == pkt.kind \in {"flush", "begin"}
IsCommandAt(s, i) == s[i].kind \in {"first", "command"} /\ \A j \in 1..(i - 1) : ~EndsCommands(s[j])
ProviderSees(s) == {i \in DOMAIN s : IsCommandAt(s, i)}

(* Every command the provider will find in an accepted prefix was one of   *)
(* the updates that ValidatePush looked at, and obeys the push policy: not *)
(* a denied ref, not a denied deletion, and no ref updated twice           *)
(* (receive.go:45, push.go:19; "a denied push forwards zero client update  *)
(* bytes").                                                                *)
ForwardedCommandsObeyPolicy ==
  expects = "accepted" =>
    /\ \A i \in ProviderSees(raw) :
         /\ \E k \in DOMAIN updates : updates[k] = raw[i].update
         /\ raw[i].update.ref \notin DenyRefs
         /\ ~(DenyDeletes /\ isZeroObjectID(raw[i].update.new))
    /\ \A i, j \in ProviderSees(raw) :
         raw[i].update.ref = raw[j].update.ref => i = j

(* And conversely: the updates reported in the audit record are commands   *)
(* of the prefix, as many as the policy allows (receive.go:52).            *)
ReportedUpdatesAreForwarded ==
  /\ \A k \in DOMAIN updates : \E i \in ProviderSees(raw) : updates[k] = raw[i].update
  /\ expects = "accepted" => Len(updates) \in 1..MaxRefUpdates

(* Every object ID of an accepted prefix, shallow declarations included,   *)
(* has the width of the object format the client selected, although the    *)
(* shallow lines come before it is known (validate.go:28-52).              *)
OneObjectFormat ==
  expects = "accepted" =>
    \A i \in DOMAIN raw :
      /\ raw[i].kind = "shallow" => raw[i].oid.width = oidWidth
      /\ i \in ProviderSees(raw) =>
           raw[i].update.old.width = oidWidth /\ raw[i].update.new.width = oidWidth

Flushes == {i \in DOMAIN raw : raw[i].kind = "flush"}

(* ParseReceivePack reads exactly the prefix (receive.go:28): it never     *)
(* reads on into the pack data, and an accepted prefix is complete: it     *)
(* ends with the flush that ends its last section, within MaxBytes.        *)
PrefixIsExact ==
  /\ used <= MaxPrefixBytes
  /\ expects \in Parsing => \A i \in Flushes : Has(requested, "push-options") /\ expects = "options"
  /\ expects = "accepted" =>
       /\ raw[Len(raw)].kind = "flush"
       /\ \A i \in Flushes : i < Len(raw) => Has(requested, "push-options")
       /\ Has(requested, "push-options") => \E i \in Flushes : i < Len(raw)

HeaderAt(s, field) == {i \in DOMAIN s : s[i].kind = "header" /\ s[i].field = field}
OptionAt(s) == {i \in DOMAIN s : s[i].kind = "option"}

(* The packets of s at these places spell the values, in this order.       *)
Spell(s, places, values) ==
  \E at \in [1..Len(values) -> places] :
    /\ \A k, l \in 1..Len(values) : k < l => at[k] < at[l]
    /\ \A i \in places : \E k \in 1..Len(values) : i = at[k]
    /\ \A k \in 1..Len(values) : s[at[k]].value = values[k]

(* An accepted certificate is whole: it carries the nonce the provider     *)
(* advertised, once, a closed signature that is not empty and comes after  *)
(* the commands, and it signs exactly the push options that follow it      *)
(* (certificate.go:41-128).                                                *)
CertificateIsWhole ==
  (expects = "accepted" /\ signed) =>
    /\ \E i \in DOMAIN raw : /\ HeaderAt(raw, "nonce") = {i}
                             /\ raw[i].value = ValueOf(advertised, "push-cert")
    /\ \E i, j \in DOMAIN raw :
         /\ i + 1 < j
         /\ raw[i].kind = "begin" /\ raw[j].kind = "end" /\ raw[i].envelope = raw[j].envelope
         /\ \A k \in ProviderSees(raw) : k < i
    /\ Spell(raw, HeaderAt(raw, "push-option"), trailing)
    /\ Spell(raw, OptionAt(raw), trailing)
=============================================================================
