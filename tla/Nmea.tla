-------------------------------- MODULE Nmea --------------------------------
(***************************************************************************)
(* The NMEA sentences the application processor generates itself           *)
(* (gps/utils/loc_nmea.cpp): GSV from a satellite report, GSA, VTG, RMC    *)
(* and GGA from a position.  A sentence is a record of the fields its      *)
(* readers tell apart; the text of a field, and the checksum, which covers *)
(* the whole sentence, are left out.  No sentence reaches the 200 bytes of *)
(* its buffer, so the early returns on a formatting error are too.  The    *)
(* functions keep nothing between calls: a behaviour is one call.          *)
(***************************************************************************)
EXTENDS Naturals, Sequences, FiniteSets

CONSTANTS
    SvLists,      \* satellite reports: sequences of [type, svId]
    UsedMasks,    \* used satellites of a position: constellation |-> ids
    NoSentences   \* nothing has been generated yet

VARIABLES
    svNotify,     \* the satellite report handled
    position,     \* the position handled
    nmeaArraystr  \* the sentences generated from it

nmeaVars == <<svNotify, position, nmeaArraystr>>

\* An empty report is a report.
ASSUME NmeaAssumption ==
    /\ SvLists \subseteq Seq([type : STRING, svId : Nat]) /\ <<>> \in SvLists
    /\ UsedMasks \subseteq [{"GPS", "GLONASS", "GALILEO", "QZSS", "BEIDOU"} -> SUBSET Nat]

NmeaSystems == <<"GPS", "GLONASS", "GALILEO", "QZSS", "BEIDOU">>
Combinable == {"GPS", "GLONASS", "GALILEO"}

-----------------------------------------------------------------------------
(* loc_nmea_sv_meta_init: used is the constellations with a nonzero mask.  *)

SvIdOffset(c) == IF c = "GLONASS" THEN 64 ELSE 0
SystemId == [GPS |-> 1, GLONASS |-> 2, GALILEO |-> 3, BEIDOU |-> 4, QZSS |-> 5]
SignalId == [GPS |-> 1, GLONASS |-> 1, GALILEO |-> 7, QZSS |-> 0, BEIDOU |-> 0]
OwnTalker == [GPS |-> "GP", GLONASS |-> "GL", GALILEO |-> "GA", QZSS |-> "PQ", BEIDOU |-> "PQ"]

loc_nmea_sv_meta_init(c, used, needCombine) ==
    IF needCombine /\ Cardinality(used) > 1 THEN "GN" ELSE OwnTalker[c]

-----------------------------------------------------------------------------
(* Satellites in view: four to a sentence, in the report's order.  The     *)
(* scan of the report goes on where the sentence before stopped, so the    *)
(* satellite it lists as the r-th of its constellation has rank r there.   *)

\* Mutant: the sentence that is not full is not counted.
CountFullOnly(n) == n \div 4

SentenceCount(n) == n \div 4 + (IF n % 4 # 0 THEN 1 ELSE 0)

OfType(svs, c) == {n \in DOMAIN svs : svs[n].type = c}

Rank(S, n) == Cardinality({m \in S : m <= n})

Ranked(S, r) == CHOOSE n \in S : Rank(S, n) = r

loc_nmea_generate_GSV(svs, c) ==
    LET count == Cardinality(OfType(svs, c))
        last(k) == IF 4 * k < count THEN 4 * k ELSE count
        Id(r) == svs[Ranked(OfType(svs, c), r)].svId + SvIdOffset(c)
        Sentence(total, k) ==
            [kind |-> "GSV", talker |-> loc_nmea_sv_meta_init(c, {}, FALSE), of |-> c,
             total |-> total, number |-> k, svCount |-> count, signal |-> SignalId[c],
             ids |-> [n \in 1 .. (last(k) - 4 * (k - 1)) |-> Id(4 * (k - 1) + n)]]
    IN IF count = 0 THEN <<Sentence(1, 1)>>
       ELSE [k \in 1 .. SentenceCount(count) |-> Sentence(SentenceCount(count), k)]

loc_nmea_generate_sv == \E svs \in SvLists :
    /\ nmeaArraystr = <<>>
    /\ svNotify' = svs
    /\ nmeaArraystr' = loc_nmea_generate_GSV(svs, "GPS") \o loc_nmea_generate_GSV(svs, "GLONASS")
            \o loc_nmea_generate_GSV(svs, "GALILEO") \o loc_nmea_generate_GSV(svs, "QZSS")
            \o loc_nmea_generate_GSV(svs, "BEIDOU")
    /\ UNCHANGED position

-----------------------------------------------------------------------------
(* A position.  The cached masks have 32 bits, and the ones of QZSS and    *)
(* BeiDou are exchanged.                                                   *)

Mask32(ids) == ids \cap 1 .. 32

CachedMask(pos, c) ==
    IF ~pos.hasUsed THEN {}
    ELSE Mask32(pos.used[CASE c = "QZSS" -> "BEIDOU" [] c = "BEIDOU" -> "QZSS" [] OTHER -> c])

UsedConstellations(pos) ==
    {c \in {NmeaSystems[n] : n \in DOMAIN NmeaSystems} : CachedMask(pos, c) # {}}

FixType(n) == IF n = 0 THEN 1 ELSE IF n <= 3 THEN 2 ELSE 3

\* The sentence of constellation c, none when it has no used satellite.
loc_nmea_generate_GSA(pos, c) ==
    LET mask == CachedMask(pos, c)
        count == Cardinality(mask)
        first12 == {i \in mask : Cardinality({j \in mask : j < i}) < 12}
    IN IF count = 0 /\ c # "GPS" THEN <<>>
       ELSE <<[kind |-> "GSA", fixType |-> FixType(count), system |-> SystemId[c],
               talker |-> loc_nmea_sv_meta_init(c, UsedConstellations(pos), c \in Combinable),
               ids |-> {i + SvIdOffset(c) : i \in first12}, dop |-> pos.hasDop]>>

\* The talker of the last of GPS, GLONASS and Galileo that was used.
PositionTalker(pos) ==
    LET used == UsedConstellations(pos)
        Talks(c) == loc_nmea_sv_meta_init(c, used, TRUE)
    IN IF "GALILEO" \in used THEN Talks("GALILEO")
       ELSE IF "GLONASS" \in used THEN Talks("GLONASS")
       ELSE IF "GPS" \in used THEN Talks("GPS") ELSE "GP"

\* Mode of VTG and RMC, and the quality of GGA that goes with it.
PositionMode(pos) ==
    IF ~pos.hasLatLong THEN "N" ELSE IF pos.sbas THEN "D" ELSE IF pos.sensorsOnly THEN "E" ELSE "A"
gpsQuality(pos) == [N |-> 0, D |-> 2, E |-> 6, A |-> 1][PositionMode(pos)]

SvUsedCount(pos) ==
    LET used(n) == Cardinality(CachedMask(pos, NmeaSystems[n]))
        total == used(1) + used(2) + used(3) + used(4) + used(5)
    IN IF total > 12 THEN 12 ELSE total

VTG(pos) == <<[kind |-> "VTG", talker |-> PositionTalker(pos), mode |-> PositionMode(pos)]>>
RMC(pos) == <<[kind |-> "RMC", talker |-> PositionTalker(pos), mode |-> PositionMode(pos),
               hasLatLong |-> pos.hasLatLong]>>
GGA(pos) == <<[kind |-> "GGA", talker |-> PositionTalker(pos), quality |-> gpsQuality(pos),
               svUsedCount |-> SvUsedCount(pos), hasLatLong |-> pos.hasLatLong,
               hdop |-> pos.hasDop]>>

\* Reports that are not final get empty sentences.
BlankSentences ==
    LET Blank(kind, talker) == [kind |-> kind, talker |-> talker] IN
    <<Blank("GSA", "GP"), Blank("GSA", "GN"), Blank("GSA", "PQ"), Blank("VTG", "GP"),
      Blank("RMC", "GP"), Blank("GGA", "GP")>>

Positions == [hasUsed : BOOLEAN, used : UsedMasks, hasLatLong : BOOLEAN, sbas : BOOLEAN,
              sensorsOnly : BOOLEAN, hasDop : BOOLEAN]

\* When gmtime fails there is no sentence, not even an empty one.
loc_nmea_generate_pos == \E pos \in Positions, generate_nmea, gmtime \in BOOLEAN :
    /\ nmeaArraystr = <<>>
    /\ position' = IF gmtime THEN [pos |-> pos, final |-> generate_nmea] ELSE position
    /\ nmeaArraystr' =
        IF ~gmtime THEN <<>>
        ELSE IF generate_nmea
        THEN loc_nmea_generate_GSA(pos, "GPS") \o loc_nmea_generate_GSA(pos, "GLONASS")
                \o loc_nmea_generate_GSA(pos, "GALILEO") \o loc_nmea_generate_GSA(pos, "QZSS")
                \o loc_nmea_generate_GSA(pos, "BEIDOU") \o VTG(pos) \o RMC(pos) \o GGA(pos)
        ELSE BlankSentences
    /\ UNCHANGED svNotify

-----------------------------------------------------------------------------
NmeaInit == svNotify = <<>> /\ position = NoSentences /\ nmeaArraystr = <<>>
NmeaNext == loc_nmea_generate_sv \/ loc_nmea_generate_pos
NmeaSpec == NmeaInit /\ [][NmeaNext]_nmeaVars

NmeaTypeOK == svNotify \in Seq([type : STRING, svId : Nat]) /\ \A n \in DOMAIN nmeaArraystr :
    nmeaArraystr[n].kind \in {"GSV", "GSA", "VTG", "RMC", "GGA"}

Of(kind) == {n \in DOMAIN nmeaArraystr : nmeaArraystr[n].kind = kind}

\* The GSV sentences of a constellation, and the places in them taken.
GsvOf(c) == {m \in Of("GSV") : nmeaArraystr[m].of = c}
GsvPlaces(c) == {p \in GsvOf(c) \X (1 .. 4) : p[2] \in DOMAIN nmeaArraystr[p[1]].ids}

SvSentenceAgrees(s) ==
    /\ {nmeaArraystr[m].number : m \in GsvOf(s.of)} = 1 .. s.total
    /\ Cardinality(GsvOf(s.of)) = s.total /\ Len(s.ids) <= 4
    /\ s.svCount = Cardinality(OfType(svNotify, s.of))
    /\ \A sv \in OfType(svNotify, s.of) : \E p \in GsvPlaces(s.of) :
          nmeaArraystr[p[1]].ids[p[2]] = svNotify[sv].svId + SvIdOffset(s.of)
    /\ Cardinality(GsvPlaces(s.of)) = s.svCount

\* The used satellites the GSA sentences list, with their sentence.
ListedAsUsed == UNION {{<<n, i>> : i \in nmeaArraystr[n].ids} : n \in Of("GSA")}

(* The sentences agree with each other and with what they were generated   *)
(* from: the GSV sentences of a constellation carry the numbers 1 to the   *)
(* total each announces, at most four satellites each, and list every      *)
(* satellite of the report once, as many as they announce; and the GGA of  *)
(* a final position counts the satellites its GSA sentences list, up to 12,*)
(* as long as none of them uses more than the 12 it has room for.          *)
SentencesAgree ==
    /\ \A n \in Of("GSV") : SvSentenceAgrees(nmeaArraystr[n])
    /\ \A g \in Of("GGA") : (position.final /\
            \A n \in Of("GSA") : Cardinality(nmeaArraystr[n].ids) < 12) =>
        nmeaArraystr[g].svUsedCount =
            IF Cardinality(ListedAsUsed) > 12 THEN 12 ELSE Cardinality(ListedAsUsed)

=============================================================================
