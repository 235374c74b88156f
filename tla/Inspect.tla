------------------------------- MODULE Inspect -------------------------------
(***************************************************************************)
(* An analyst opens a container (Container) and then makes one query: the  *)
(* reaper's queue (Reaper), the state of a block (Spaceman), the integrity *)
(* metadata of a sealed volume (IntegrityMeta::parse, sealed.rs) or the    *)
(* tags of a keybag (read_keybag, encryption.rs).  The last two work on a  *)
(* block the caller has read.                                              *)
(***************************************************************************)
EXTENDS Reaper, Spaceman

CONSTANTS
    KeyAlign,             \* encryption.rs: entries are aligned to 16 bytes
    MAX_KEYBAG_ENTRIES    \* encryption.rs: 4096

ASSUME KeybagAssumption == KeyAlign \in Nat \ {0} /\ MAX_KEYBAG_ENTRIES \in Nat

allVars == <<vars, ephemeralVars, reaperVars, sm>>

InspectInit == EphemeralInit /\ ReaperInit /\ SpacemanInit

-----------------------------------------------------------------------------
\* Integrity metadata

IM_VERSION == 3
IM_HASH_TYPE == 4
IM_BROKEN_XID == 5

Integrity(b) ==
    [version |-> Field(b, IM_VERSION), hash |-> Field(b, IM_HASH_TYPE),
     broken |-> Field(b, IM_BROKEN_XID)]

BeginQuery ==
    /\ pc = "open" /\ stage = "idle"
    /\ call.op \in {"integrity", "keybag"}
    /\ Proceed(call.op, call.arg)
    /\ UNCHANGED <<reaperVars, sm>> /\ Quiet

ReadIntegrity ==
    /\ stage = "integrity"
    /\ ReadObj(at) = "Ok"
    /\ Answered("Ok", Integrity(content[at]))
    /\ UNCHANGED <<reaperVars, sm>> /\ Quiet

IntegrityRejected ==
    /\ stage = "integrity"
    /\ ReadObj(at) # "Ok"
    /\ Refused(ReadObj(at))
    /\ UNCHANGED <<reaperVars, sm>> /\ Quiet

-----------------------------------------------------------------------------
\* Keybags: a count, then entries of a header (tag, key length) and the key,
\* each padded to the alignment.

KL_NKEYS == 1
KL_ENTRIES_OFF == 2
KE_TAG == 0
KE_KEYLEN == 1
KE_HEADER_LEN == 2

\* 1 a wrapping key, 2 a volume key, 3 unlock records, 4 a passphrase hint,
\* 248 a user payload.
KeyTags == {1, 2, 3}
HintTag == 4

KnownTag(t) == IF t \in KeyTags \cup {HintTag, 248} THEN t ELSE 0

EntryLen(b, off) ==
    LET n == KE_HEADER_LEN + Field(b, off + KE_KEYLEN)
    IN  KeyAlign * ((n + KeyAlign - 1) \div KeyAlign)

\* Where the n-th entry starts.
EntryOffsets(b, n) ==
    LET off[k \in 0 .. n] == IF k = 0 THEN KL_ENTRIES_OFF
                             ELSE LET o == off[k - 1] IN o + EntryLen(b, o)
    IN  off

\* The walk stops at the first entry whose header leaves the blob.
KeybagEntries(b) ==
    LET n == IF Field(b, KL_NKEYS) < MAX_KEYBAG_ENTRIES
             THEN Field(b, KL_NKEYS) ELSE MAX_KEYBAG_ENTRIES
        off == EntryOffsets(b, n)
    IN  {off[k] : k \in {j \in 0 .. n - 1 :
                            off[j] + KE_HEADER_LEN - 1 <= Len(b)}}

EncryptionState(b) ==
    LET raw == [o \in KeybagEntries(b) |-> Field(b, o + KE_TAG)]
        tags == {KnownTag(raw[o]) : o \in DOMAIN raw}
    IN  [encrypted |-> tags \cap KeyTags # {}, tags |-> tags,
         hint |-> HintTag \in tags,
         unknown |-> {<<raw[o], o>> : o \in {p \in DOMAIN raw : KnownTag(raw[p]) = 0}}]

\* A volume's protection as a writer stores it: the seal in the sealed block
\* at a; keys as entries [tag, len, off] of the blob at a, each beginning at
\* the first aligned distance behind the one before.
SealStored(d, a) == Sealed(d, a) /\ d.seal = Integrity(d.content[a])

KeysStored(d, a) ==
    LET b == d.content[a]
        n == Len(d.keys)
        Dist(k) == d.keys[k + 1].off - d.keys[k].off
        Need(k) == KE_HEADER_LEN + d.keys[k].len
    IN  /\ a \in DOMAIN d.content
        /\ d.keys \in Seq([tag : Word, len : Word, off : Nat])
        /\ n <= MAX_KEYBAG_ENTRIES /\ Field(b, KL_NKEYS) = n
        /\ d.tags = {d.keys[k].tag : k \in 1 .. n}
        /\ n > 0 => d.keys[1].off = KL_ENTRIES_OFF
        /\ \A k \in 1 .. n :
              /\ d.keys[k].off + KE_HEADER_LEN - 1 <= Len(b)
              /\ Field(b, d.keys[k].off + KE_TAG) = d.keys[k].tag
              /\ Field(b, d.keys[k].off + KE_KEYLEN) = d.keys[k].len
        /\ \A k \in 1 .. n - 1 :
              /\ d.keys[k].off < d.keys[k + 1].off
              /\ \E q \in 0 .. BlockWords : Dist(k) = KeyAlign * q
              /\ Need(k) <= Dist(k) /\ Dist(k) < Need(k) + KeyAlign

ASSUME ProtectionAssumption ==
    \A d \in Disks : d.sound => \A c \in d.calls :
        /\ c.op = "integrity" => SealStored(d, c.arg)
        /\ c.op = "keybag" => KeysStored(d, c.arg)

ReadKeybag ==
    /\ stage = "keybag"
    /\ at \in DOMAIN content
    /\ Answered("Ok", EncryptionState(content[at]))
    /\ UNCHANGED <<reaperVars, sm>> /\ Quiet

-----------------------------------------------------------------------------
\* Any read of a query may fail.
QueryReadFails ==
    /\ \/ stage \in {"reaper", "spaceman", "cib", "bitmap"}
       \/ stage = "list" /\ at # 0 /\ ~CapExceeded /\ ResolveEphemeral(at) # {}
    /\ Refused("Io")
    /\ UNCHANGED <<reaperVars, sm>> /\ Quiet

Open == Advance /\ UNCHANGED <<ephemeralVars, reaperVars, sm>>

OpenReadFails == ReadFails /\ UNCHANGED <<ephemeralVars, reaperVars, sm>>

Query ==
    \/ ReaperStep /\ UNCHANGED sm
    \/ SpacemanStep /\ UNCHANGED reaperVars
    \/ BeginQuery \/ ReadIntegrity \/ IntegrityRejected \/ ReadKeybag

Fault == (LoseWord \/ SwapWords) /\ UNCHANGED <<reaperVars, sm>>

QueryDone == pc = "failed" \/ (pc = "open" /\ (stage = "done" \/ call.op = "none"))

InspectReturned == QueryDone /\ UNCHANGED allVars

InspectNext ==
    \/ Open \/ OpenReadFails \/ Query \/ QueryReadFails \/ Fault
    \/ InspectReturned

\* Both calls are sequential and run until they return.
InspectSpec ==
    /\ InspectInit /\ [][InspectNext]_allVars
    /\ WF_allVars(Open) /\ WF_allVars(Query)

-----------------------------------------------------------------------------
\* Properties

\* sealed.rs "checksum-before-trust": a seal recorded as broken never reads
\* as whole, nor a whole one as broken, whatever word the medium loses.
\* encryption.rs: every entry of an intact keybag is seen behind keys of any
\* length, so a volume with key material is never reported as unencrypted.
ProtectionIsTrue ==
    (answer.status = "Ok" /\ disk.sound) =>
        /\ call.op = "integrity" => answer.value = disk.seal
        /\ (call.op = "keybag" /\ faults = {}) =>
             /\ answer.value.tags = {KnownTag(t) : t \in disk.tags}
             /\ answer.value.encrypted <=> disk.tags \cap KeyTags # {}

\* The open and the query that follows it return, in every container.
QueryReturns == <>QueryDone
=============================================================================
