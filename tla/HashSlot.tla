------------------------------ MODULE HashSlot ------------------------------
(***************************************************************************)
(* CClusterSupport::getSlot (src/MiddleWare.cpp): the slot of a key is the *)
(* CRC16 of its hash tag, or of the whole key, modulo 16384.  The state    *)
(* machine only enumerates keys, byte by byte; what the functions return   *)
(* is compared with definitions that do not go through the table or the    *)
(* two searches.                                                           *)
(***************************************************************************)
EXTENDS Integers, Sequences, SequencesExt, Bitwise

CONSTANTS
    Byte,       \* the bytes short keys are made of
    MaxLen,     \* bound: the length of a short key
    Sample,     \* the bytes longer keys are made of
    MaxSample   \* bound: the length of a longer key

ASSUME HashAssumption ==
    /\ Sample \subseteq Byte /\ Byte \subseteq 0 .. 255
    /\ MaxLen \in Nat /\ MaxSample \in Nat

Open  == 123   \* '{'
Close == 125   \* '}'

-----------------------------------------------------------------------------
crctable == <<
    \h0000, \h1021, \h2042, \h3063, \h4084, \h50a5, \h60c6, \h70e7,
    \h8108, \h9129, \ha14a, \hb16b, \hc18c, \hd1ad, \he1ce, \hf1ef,
    \h1231, \h0210, \h3273, \h2252, \h52b5, \h4294, \h72f7, \h62d6,
    \h9339, \h8318, \hb37b, \ha35a, \hd3bd, \hc39c, \hf3ff, \he3de,
    \h2462, \h3443, \h0420, \h1401, \h64e6, \h74c7, \h44a4, \h5485,
    \ha56a, \hb54b, \h8528, \h9509, \he5ee, \hf5cf, \hc5ac, \hd58d,
    \h3653, \h2672, \h1611, \h0630, \h76d7, \h66f6, \h5695, \h46b4,
    \hb75b, \ha77a, \h9719, \h8738, \hf7df, \he7fe, \hd79d, \hc7bc,
    \h48c4, \h58e5, \h6886, \h78a7, \h0840, \h1861, \h2802, \h3823,
    \hc9cc, \hd9ed, \he98e, \hf9af, \h8948, \h9969, \ha90a, \hb92b,
    \h5af5, \h4ad4, \h7ab7, \h6a96, \h1a71, \h0a50, \h3a33, \h2a12,
    \hdbfd, \hcbdc, \hfbbf, \heb9e, \h9b79, \h8b58, \hbb3b, \hab1a,
    \h6ca6, \h7c87, \h4ce4, \h5cc5, \h2c22, \h3c03, \h0c60, \h1c41,
    \hedae, \hfd8f, \hcdec, \hddcd, \had2a, \hbd0b, \h8d68, \h9d49,
    \h7e97, \h6eb6, \h5ed5, \h4ef4, \h3e13, \h2e32, \h1e51, \h0e70,
    \hff9f, \hefbe, \hdfdd, \hcffc, \hbf1b, \haf3a, \h9f59, \h8f78,
    \h9188, \h81a9, \hb1ca, \ha1eb, \hd10c, \hc12d, \hf14e, \he16f,
    \h1080, \h00a1, \h30c2, \h20e3, \h5004, \h4025, \h7046, \h6067,
    \h83b9, \h9398, \ha3fb, \hb3da, \hc33d, \hd31c, \he37f, \hf35e,
    \h02b1, \h1290, \h22f3, \h32d2, \h4235, \h5214, \h6277, \h7256,
    \hb5ea, \ha5cb, \h95a8, \h8589, \hf56e, \he54f, \hd52c, \hc50d,
    \h34e2, \h24c3, \h14a0, \h0481, \h7466, \h6447, \h5424, \h4405,
    \ha7db, \hb7fa, \h8799, \h97b8, \he75f, \hf77e, \hc71d, \hd73c,
    \h26d3, \h36f2, \h0691, \h16b0, \h6657, \h7676, \h4615, \h5634,
    \hd94c, \hc96d, \hf90e, \he92f, \h99c8, \h89e9, \hb98a, \ha9ab,
    \h5844, \h4865, \h7806, \h6827, \h18c0, \h08e1, \h3882, \h28a3,
    \hcb7d, \hdb5c, \heb3f, \hfb1e, \h8bf9, \h9bd8, \habbb, \hbb9a,
    \h4a75, \h5a54, \h6a37, \h7a16, \h0af1, \h1ad0, \h2ab3, \h3a92,
    \hfd2e, \hed0f, \hdd6c, \hcd4d, \hbdaa, \had8b, \h9de8, \h8dc9,
    \h7c26, \h6c07, \h5c64, \h4c45, \h3ca2, \h2c83, \h1ce0, \h0cc1,
    \hef1f, \hff3e, \hcf5d, \hdf7c, \haf9b, \hbfba, \h8fd9, \h9ff8,
    \h6e17, \h7e36, \h4e55, \h5e74, \h2e93, \h3eb2, \h0ed1, \h1ef0 >>

(* Fault: the crc is not cut to 16 bits. *)
Wide(n) == n

uint16(n) == n % 65536

(* crc = (crc << 8) ^ crctable[((crc >> 8) ^ *str++) & 0x00FF] *)
fnCRC16(str) ==
    LET Step(crc, b) ==
          uint16(crc * 256) ^^ crctable[(((crc \div 256) ^^ b) % 256) + 1]
    IN  FoldLeft(Step, 0, str)

(* Fault: the last brace is taken. *)
SearchLast(key, b, from) ==
    LET found == {i \in from .. Len(key) - 1 : key[i + 1] = b}
    IN  IF found = {} THEN Len(key) ELSE CHOOSE i \in found : \A j \in found : i >= j

(* The index of the first b in key at or after from, or the length: the    *)
(* indexes are those of the code, from 0.                                  *)
Search(key, b, from) ==
    LET found == {i \in from .. Len(key) - 1 : key[i + 1] = b}
    IN  IF found = {} THEN Len(key) ELSE CHOOSE i \in found : \A j \in found : i <= j

(* The bytes that are hashed: what is between the first '{' and the first  *)
(* '}' after it, if both are there with something between them.            *)
Hashed(key) ==
    LET s == Search(key, Open, 0)
        e == Search(key, Close, s + 1)
    IN  IF s = Len(key) \/ e = Len(key) \/ e = s + 1 THEN key ELSE SubSeq(key, s + 2, e)

(* A command without a key has no slot: that case is ConnectionPool's      *)
(* NoSlot.                                                                 *)
getSlot(key) == fnCRC16(Hashed(key)) % 16384

-----------------------------------------------------------------------------
(* The keys *)

VARIABLE key

Init == key = <<>>

Next ==
    \E b \in Byte :
        /\ key' = Append(key, b)
        /\ \/ Len(key') <= MaxLen
           \/ Len(key') <= MaxSample /\ ToSet(key') \subseteq Sample

Spec == Init /\ [][Next]_key

-----------------------------------------------------------------------------
(* Properties *)

(* Division of the message by the polynomial x^16 + x^12 + x^5 + 1, one    *)
(* bit at a time, as the definition of the CRC has it.                     *)
Crc16(str) ==
    LET Bit(crc, i) == IF crc >= 32768
                       THEN ((crc * 2) % 65536) ^^ 4129
                       ELSE crc * 2
        Octet(crc, b) == FoldLeft(Bit, crc ^^ (b * 256), <<1, 2, 3, 4, 5, 6, 7, 8>>)
    IN  FoldLeft(Octet, 0, str)

(* The table-driven loop computes the CRC16 of the polynomial 0x1021, and  *)
(* nothing is carried out of 16 bits.                                      *)
CrcCorrect == fnCRC16(key) = Crc16(key)

(* tag between braces, inside some text. *)
Tagged(before, tag, after) == before \o <<Open>> \o tag \o <<Close>> \o after

HasTag ==
    \E i, j \in DOMAIN key :
        /\ key[i] = Open /\ \A h \in 1 .. i - 1 : key[h] # Open
        /\ key[j] = Close /\ i + 1 < j
        /\ \A h \in i + 1 .. j - 1 : key[h] # Close

(* Keys with one tag have one slot, the slot of the tag itself, whatever   *)
(* surrounds it: multi-key pipelines rely on it to stay on one connection. *)
(* A key without a usable tag is hashed as a whole: no '{', no '}' after   *)
(* the first '{', or nothing between the two.                              *)
TagDecides ==
    /\ key # <<>> /\ ~Contains(key, Close)
         => LET slot == getSlot(key)
            IN  \A before \in {<<>>, <<Close, 97>>}, after \in {<<>>, <<Close, 97, Open>>} :
                   getSlot(Tagged(before, key, after)) = slot
    /\ ~HasTag => getSlot(key) = Crc16(key) % 16384
=============================================================================
