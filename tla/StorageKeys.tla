---------------------------- MODULE StorageKeys -----------------------------
(***************************************************************************)
(* The string keys of smdb-storage: how RedbEngine puts an entity id, a    *)
(* machine name and a sequence number into one key, and the order in which *)
(* redb iterates over such keys.  A string is a sequence of characters,    *)
(* a character a number; the code's decimal digits, twenty to a sequence,  *)
(* are SeqBase and SeqWidth.                                               *)
(***************************************************************************)
EXTENDS Naturals, Sequences

CONSTANTS SeqBase,   \* digits a sequence number is written with: 10
          SeqWidth   \* characters {:020} pads it to: 20

ASSUME KeyAssumption == SeqBase \in Nat \ {0, 1} /\ SeqWidth \in Nat \ {0}

NUL == 0

(* A name has no NUL in it.  Nothing in the code sees to that: ids come    *)
(* from clients.                                                           *)
IsName(s) == s \in Seq(Nat) /\ \A i \in DOMAIN s : s[i] # NUL

-----------------------------------------------------------------------------
entity_state_key(entity_id, machine) == entity_id \o <<NUL>> \o machine

entity_transition_prefix(entity_id, machine) == entity_id \o <<NUL>> \o machine \o <<NUL>>

(* The value of a digit's place: SeqBase to that power. *)
Weight[place \in Nat] == IF place = 0 THEN 1 ELSE SeqBase * Weight[place - 1]

(* The digits of a number, most significant first, from the character 0. *)
Digit(n, place) == 48 + ((n \div Weight[place]) % SeqBase)

Unpadded(n) ==
    LET width == CHOOSE k \in 1..SeqWidth :
                    /\ n < Weight[k]
                    /\ \A j \in 1..k - 1 : n >= Weight[j]
    IN [i \in 1..width |-> Digit(n, width - i)]

Padded(n) == [i \in 1..SeqWidth |-> Digit(n, SeqWidth - i)]

entity_transition_key(entity_id, machine, seq) ==
    entity_transition_prefix(entity_id, machine) \o Padded(seq)

effect_by_txn_prefix(transition_id) == transition_id \o <<NUL>>

effect_by_txn_key(transition_id, effect_id) == effect_by_txn_prefix(transition_id) \o effect_id

-----------------------------------------------------------------------------
starts_with(key, prefix) ==
    Len(prefix) <= Len(key) /\ \A i \in DOMAIN prefix : key[i] = prefix[i]

contains(key, part) ==
    \E at \in 0..Len(key) : starts_with(SubSeq(key, at + 1, Len(key)), part)

(* redb compares str keys byte by byte; a prefix comes first. *)
Before(k1, k2) ==
    \/ k1 # k2 /\ starts_with(k2, k1)
    \/ \E n \in DOMAIN k1 \cap DOMAIN k2 :
          k1[n] < k2[n] /\ \A i \in 1..n - 1 : k1[i] = k2[i]
=============================================================================
