----------------------------- MODULE AudioPath -----------------------------
(***************************************************************************)
(* Which configuration a device is opened in, what may be said of the      *)
(* audio that came through it, and what playback does to it on the way     *)
(* out: src/crates/audio/src/{devices,probe,capture,verify,convert,        *)
(* playback,selection}.rs.                                                 *)
(*                                                                         *)
(* A device is [key, id, name, within, host, prefix, transport, configs],  *)
(* within being what its name or id merely contains, and a configuration   *)
(* range [format, channels, low, high].  Rates are small numbers,          *)
(* Preferred is 96 kHz.  What a request pins, and what the system reports, *)
(* is a set of one value, or of none.                                      *)
(***************************************************************************)
EXTENDS Integers, Sequences

LOCAL INSTANCE FiniteSetsExt

CONSTANTS StandardRates, Preferred

Formats == {"S16", "S24", "S32", "F32"}

----------------------------------------------------------------------------
(* Devices: how one is reached, and how a person names one.                *)

Classify(host, prefix, virtual) ==
  IF virtual THEN "virtual"
  ELSE IF host # "alsa" THEN "unknown"
  ELSE IF prefix = "hw" THEN "direct"
  ELSE IF prefix = "plughw" THEN "converting" ELSE "virtual"

(* A query picks out one device or none: its key, its id if only one host  *)
(* has it, its name, and what merely contains the query.                   *)
Found(hits) == {d \in hits : hits = {d}}

\* Mutant: the first of several devices of a name will do.
FindFirst(devices, query) ==
  LET named(field) == {d \in devices : d[field] = query}
  IN  IF named("key") # {} THEN named("key")
      ELSE IF named("id") # {} THEN Found(named("id"))
      ELSE IF named("name") # {} THEN {CHOOSE d \in named("name") : TRUE}
      ELSE Found({d \in devices : query \in d.within})

Find(devices, query) ==
  LET named(field) == {d \in devices : d[field] = query}
  IN  IF named("key") # {} THEN named("key")
      ELSE IF named("id") # {} THEN Found(named("id"))
      ELSE IF named("name") # {} THEN Found(named("name"))
      ELSE Found({d \in devices : query \in d.within})

----------------------------------------------------------------------------
(* What a device advertises, point by point, in the formats we know.       *)
Advertised(configs) ==
  {p \in [rate : StandardRates, format : Formats, channels : {c.channels : c \in configs}] :
     \E c \in configs :
       c.format = p.format /\ c.channels = p.channels /\ p.rate \in c.low .. c.high}

FormatRank(f) == CASE f = "S24" -> 0 [] f = "S32" -> 1 [] f = "S16" -> 2 [] OTHER -> 3

ChannelRank(n) == IF n = 2 THEN 0 ELSE n

(* Of several that rank alike any may come first.                          *)
Lowest(points, first(_), second(_)) ==
  {p \in points : \A q \in points :
     first(p) < first(q) \/ (first(p) = first(q) /\ second(p) <= second(q))}

Suggest(points) ==
  LET rates == {p.rate : p \in points}
      rate  == IF Preferred \in rates THEN Preferred ELSE Max(rates)
  IN  IF points = {} THEN {}
      ELSE Lowest({p \in points : p.rate = rate},
                  LAMBDA p : FormatRank(p.format), LAMBDA p : ChannelRank(p.channels))

(* Capture: what is pinned filters, what is left open is suggested.        *)
Choose(configs, request) ==
  Suggest({p \in Advertised(configs) :
             \A field \in {"rate", "channels", "format"} : request[field] \subseteq {p[field]}})

NegotiatedMode(mode, transport) == IF transport = "direct" THEN mode ELSE "shared"

CouldBeBitPerfect(mode) == mode \in {"native", "exclusive"}

(* The stream as it was opened, at one of the points that were chosen.     *)
Negotiated(device, request, point) ==
  [rate |-> point.rate, channels |-> point.channels, format |-> point.format,
   mode |-> NegotiatedMode(request.mode, device.transport), transport |-> device.transport,
   divergences |->
     {field \in {"rate", "channels", "format"} : ~(request[field] \subseteq {point[field]})}
     \cup (IF NegotiatedMode(request.mode, device.transport) # request.mode THEN {"mode"} ELSE {})]

----------------------------------------------------------------------------
(***************************************************************************)
(* What the operating system says, where it says anything.                 *)
(* A name for a format that maps to none of ours differs from all of them. *)
(***************************************************************************)
Checked == {"rate", "channels", "format"}

\* Mutant: two answers of the three are enough.
CompareTwo(report, expected) ==
  LET said == {field \in Checked : report[field] # {}}
  IN  IF \E field \in said : report[field] # {expected[field]} THEN "disagrees"
      ELSE IF Cardinality(said) < 2 THEN "unavailable" ELSE "agrees"

Compare(report, expected) ==
  LET said == {field \in Checked : report[field] # {}}
  IN  IF \E field \in said : report[field] # {expected[field]} THEN "disagrees"
      ELSE IF said # Checked THEN "unavailable" ELSE "agrees"

(* Only alsa is asked, only of a PCM that can be named, and only while it  *)
(* is running.                                                             *)
Verify(device, os, expected) ==
  IF device.host # "alsa" \/ device.prefix # "hw" \/ os.closed THEN "unavailable"
  ELSE Compare(os.report, expected)

Verdict(negotiated, clean, verification) ==
  IF \/ verification = "disagrees"
     \/ ~CouldBeBitPerfect(negotiated.mode)
     \/ negotiated.transport = "converting"
     \/ ~clean
  THEN "refuted"
  ELSE IF \/ verification = "unavailable"
          \/ negotiated.divergences # {}
          \/ negotiated.transport = "unknown"
  THEN "unconfirmed" ELSE "confirmed"

(* A capture from the device a query names: what was negotiated at a point *)
(* of those that were chosen, and what may be said of it.                  *)
Captures(devices, query, request, os, clean) ==
  UNION {{[device |-> d, negotiated |-> Negotiated(d, request, p),
           verdict |-> Verdict(Negotiated(d, request, p), clean, Verify(d, os, p))] :
            p \in Choose(d.configs, request)} : d \in Find(devices, query)}

----------------------------------------------------------------------------
(***************************************************************************)
(* Playback.  A stored sample is [bits, loud]: how many of its leading     *)
(* bits matter, and whether it is past full scale, which only a float can  *)
(* be.                                                                     *)
(***************************************************************************)
StorageFormats == {"Int16", "Int24Packed", "Int24Padded", "Int32", "Float32"}

Bits(stored) ==
  CASE stored = "Int16" -> 16 [] stored = "Int32" -> 32 [] OTHER -> 24

Played(to) == CASE to = "S16" -> 16 [] to = "S32" -> 32 [] OTHER -> 24

Identical(from, to) ==
  <<from, to>> \in {<<"Int16", "S16">>, <<"Int24Packed", "S24">>,
                    <<"Int32", "S32">>, <<"Float32", "F32">>}

IsIdentity(c) == c.from_channels = c.to_channels /\ Identical(c.from, c.to)

(* What is said of a conversion.                                           *)
\* Mutant: nobody counts the channels.
LossesOfFormat(c) ==
  IF (c.from = "Float32" /\ c.to # "F32") \/ Bits(c.from) > Played(c.to) THEN {"format"} ELSE {}

Losses(c) ==
  (IF (c.from = "Float32" /\ c.to # "F32") \/ Bits(c.from) > Played(c.to) THEN {"format"} ELSE {})
  \cup (IF c.from_channels > c.to_channels THEN {"channels"} ELSE {})

Silence == [bits |-> 0, loud |-> FALSE]

Earlier(a, b) == IF a < b THEN a ELSE b

(* Through a 32-bit integer, which clips, and cut to what the stream holds.*)
Converted(c, sample) == [bits |-> Earlier(sample.bits, Played(c.to)), loud |-> FALSE]

(* One frame: a mono side goes to every channel, a channel the capture     *)
(* does not have is silent.                                                *)
Apply(c, frame) ==
  IF IsIdentity(c) THEN frame
  ELSE [to \in 1 .. c.to_channels |->
          LET source == IF c.from_channels = 1 /\ c.to_channels > 1 THEN 1 ELSE to
          IN  IF source > c.from_channels THEN Silence ELSE Converted(c, frame[source])]

ConversionOf(material, point) ==
  [from |-> material.format, from_channels |-> material.channels,
   to |-> point.format, to_channels |-> point.channels]

(* The rate is never converted; then the channels, then what a format      *)
(* costs, then its width.                                                  *)
ChannelCost(material, point) ==
  IF point.channels >= material.channels
  THEN (IF point.channels = material.channels THEN 0 ELSE 1 + point.channels - material.channels)
  ELSE 1000 + material.channels - point.channels

FormatCost(material, point) ==
  LET c == ConversionOf(material, point)
      width == CASE point.format = "S16" -> 2 [] point.format = "S24" -> 1 [] OTHER -> 0
  IN  3 * (IF IsIdentity(c) THEN 0 ELSE IF Losses(c) = {} THEN 1 ELSE 2) + width

ChooseToPlay(configs, material, format) ==
  Lowest({p \in Advertised(configs) : p.rate = material.rate /\ format \subseteq {p.format}},
         LAMBDA p : ChannelCost(material, p), LAMBDA p : FormatCost(material, p))

=============================================================================
