----------------------------- MODULE WireProofs -----------------------------
(***************************************************************************)
(* What the readers of a command promise one another, proved for links and *)
(* templates of any length.                                                *)
(***************************************************************************)
EXTENDS Wire, TLAPS

\* What is known of a command at each stage of its way.
IInv ==
    /\ meant \in Commands \cup {Nothing}
    /\ stage # "draft" => frame \in Frames
    /\ Typed /\ stage # "draft" => Constructible(meant) /\ frame = Encode(meant)
    /\ stage \in {"stored", "listed", "unlistable"} =>
         Rejection(frame) = "none" /\ row = Columns(frame)
    /\ stage # "unlistable"
    /\ stage # "abandoned" => reason = "none"
    /\ stage = "abandoned" =>
         \/ reason = Rejection(frame)
         \/ /\ Rejection(frame) = "none"
            /\ reason = "storage_rejected"
            /\ ~Storable(frame)

\* What a typed command is written as may be on the stream.
LEMMA EncodeIsFrame ==
    ASSUME NEW c \in Commands
    PROVE  Encode(c) \in Frames
BY DEF Commands, Encode, Frames

\* The intake reads a typed command back as it was meant: it decodes, its link
\* is the one it had or none, and validate refuses neither its shape nor its
\* link.
LEMMA EncodeIsUnderstood ==
    ASSUME NEW c \in Commands, Constructible(c)
    PROVE  /\ Decodes(Encode(c))
           /\ RawLink(Encode(c)) = c.link
           /\ Rejection(Encode(c)) \notin
                {"payload_shape_rejected", "relative_link_rejected"}
<1>1. c.link \in Links \cup {NoLink}
  BY DEF Commands
<1>2. CASE c.link = NoLink
  <2>1. Encode(c).link = Absent /\ Encode(c).shaped
    BY <1>2 DEF Encode
  <2>2. Decodes(Encode(c)) /\ RawLink(Encode(c)) = NoLink
    BY <2>1, WireAssumption DEF Decodes, RawLink
  <2> QED BY <1>2, <2>2 DEF Rejection
<1>3. CASE c.link # NoLink
  <2>1. c.link \notin {Absent, Null, Other}
    BY <1>1, <1>3, WireAssumption
  <2>2. Encode(c).link = c.link /\ Encode(c).shaped
    BY <1>3 DEF Encode
  <2>3. Decodes(Encode(c)) /\ RawLink(Encode(c)) = c.link
    BY <2>1, <2>2 DEF Decodes, RawLink
  <2>4. Relative(c.link)
    BY <1>3 DEF Constructible
  <2> QED BY <2>3, <2>4 DEF Rejection
<1> QED BY <1>2, <1>3

\* The row made of an accepted command can be read back: from_row repeats the
\* rule of validate.
LEMMA AcceptedHydrates ==
    ASSUME NEW f, Rejection(f) = "none"
    PROVE  Hydrates(Columns(f))
BY DEF Rejection, Hydrates, Columns

\* What validate accepts is storable, but for the payload.
LEMMA AcceptedIsStorable ==
    ASSUME NEW f, Rejection(f) = "none", ~f.nul
    PROVE  Storable(f)
<1>1. ~Contains(f.template, {"nul"})
  BY DEF Rejection, Contains, Control
<1>2. RawLink(f) # NoLink => ~Contains(RawLink(f), {"nul"})
  <2> SUFFICES ASSUME RawLink(f) # NoLink PROVE ~Contains(RawLink(f), {"nul"})
    OBVIOUS
  <2>1. LinkError(RawLink(f)) = "none"
    BY DEF Rejection, Relative
  <2>2. ~Contains(RawLink(f), Blank \cup Control)
    <3> SUFFICES ASSUME Contains(RawLink(f), Blank \cup Control) PROVE FALSE
      OBVIOUS
    <3>1. LinkError(RawLink(f)) \in {"empty", "forbidden_character"}
      BY DEF LinkError
    <3> QED BY <2>1, <3>1
  <2> QED BY <2>2 DEF Contains, Control
<1> QED BY <1>1, <1>2 DEF Storable

\* The rejections of validate are not that of storage.
LEMMA RejectionsAreOwn ==
    ASSUME NEW f
    PROVE  Rejection(f) # "storage_rejected"
BY DEF Rejection

\* The stages of a command keep what was found out about it on the way there:
\* the conjunction the theorems below rest on.
THEOREM Invariance == Spec => []IInv
<1>1. Init => IInv
  BY DEF Init, IInv
<1>2. IInv /\ [Next]_vars => IInv'
  <2> SUFFICES ASSUME IInv, [Next]_vars PROVE IInv'
    OBVIOUS
  <2>1. CASE Deliver
    <3>1. frame' \in Frames
      BY <2>1, EncodeIsFrame DEF IInv, Deliver, Typed
    <3> QED BY <2>1, <3>1 DEF IInv, Deliver, Typed
  <2>2. CASE PublishRaw
    BY <2>2 DEF IInv, PublishRaw, Typed
  <2>3. CASE Refuse
    BY <2>3 DEF IInv, Refuse, Abandon, Typed
  <2>4. CASE StorageRejects
    BY <2>4 DEF IInv, StorageRejects, Abandon, Typed
  <2>5. CASE Store
    BY <2>5 DEF IInv, Store, Typed
  <2>6. CASE List
    BY <2>6, AcceptedHydrates DEF IInv, List, Typed
  <2>7. CASE UNCHANGED vars
    BY <2>7 DEF IInv, vars, Typed
  <2> QED BY <2>1, <2>2, <2>3, <2>4, <2>5, <2>6, <2>7 DEF Next
<1> QED BY <1>1, <1>2, PTL DEF Spec

\* Whatever the intake writes can be read back (Notification::from_row never
\* meets a link it refuses).
THEOREM RowsReadBack == Spec => []StoredReadsBack
<1>1. IInv => StoredReadsBack
  BY DEF IInv, StoredReadsBack
<1> QED BY <1>1, Invariance, PTL

\* A typed command is never refused for its shape or its link, and its row has
\* the link and the template it was given: what serde writes of one type it
\* reads as the other.
THEOREM TypedArrivesAsMeant == Spec => []TypedArrives
<1>1. IInv => TypedArrives
  <2> SUFFICES ASSUME IInv, Typed PROVE TypedArrives
    BY DEF TypedArrives
  <2>1. meant \in Commands
    BY DEF IInv, Typed
  <2>2. stage # "draft" =>
          /\ RawLink(frame) = meant.link
          /\ frame.template = meant.template
          /\ Rejection(frame) \notin
               {"payload_shape_rejected", "relative_link_rejected"}
    BY <2>1, EncodeIsUnderstood DEF IInv, Encode
  <2>3. reason \notin {"payload_shape_rejected", "relative_link_rejected"}
    BY <2>2 DEF IInv
  <2>4. stage \in {"stored", "listed"} =>
          row = [link |-> meant.link, template |-> meant.template]
    BY <2>2 DEF IInv, Columns
  <2> QED BY <2>3, <2>4 DEF TypedArrives
<1> QED BY <1>1, Invariance, PTL

\* PostgreSQL refuses a validated command for its payload only.
THEOREM PoisonIsPayload == Spec => []OnlyPayloadsPoison
<1>1. IInv => OnlyPayloadsPoison
  BY AcceptedIsStorable, RejectionsAreOwn DEF IInv, OnlyPayloadsPoison
<1> QED BY <1>1, Invariance, PTL

\* What RelativeLink::parse has made sure of, one character at a time.
LEMMA RelativeIsPlain ==
    ASSUME NEW link, Relative(link)
    PROVE  /\ link # <<>>
           /\ \A i \in DOMAIN link : link[i] \notin Blank \cup Control \cup {"backslash"}
           /\ link[1] = "slash"
           /\ Len(link) > 1 => link[2] # "slash"
<1>1. LinkError(link) = "none"
  BY DEF Relative
<1>2. link # <<>>
  BY <1>1 DEF LinkError
<1>3. ~Contains(link, Blank \cup Control)
  <2> SUFFICES ASSUME Contains(link, Blank \cup Control) PROVE FALSE
    OBVIOUS
  <2>1. LinkError(link) = "forbidden_character"
    BY <1>2 DEF LinkError
  <2> QED BY <1>1, <2>1
<1>4. ~Contains(link, {"backslash"})
  <2> SUFFICES ASSUME Contains(link, {"backslash"}) PROVE FALSE
    OBVIOUS
  <2>1. LinkError(link) = "backslash"
    BY <1>2, <1>3 DEF LinkError
  <2> QED BY <1>1, <2>1
<1>5. link[1] = "slash"
  BY <1>1, <1>2, <1>3, <1>4 DEF LinkError
<1>6. Len(link) > 1 => link[2] # "slash"
  BY <1>1, <1>2, <1>3, <1>4, <1>5 DEF LinkError
<1> QED BY <1>2, <1>3, <1>4, <1>5, <1>6 DEF Contains

\* The rule of RelativeLink::parse keeps a link on its domain: a browser drops
\* and replaces nothing of it, and it begins with one slash.
LEMMA RelativeStaysHome ==
    ASSUME NEW link \in Links, Relative(link)
    PROVE  StaysHome(link)
<1>1. PICK n \in 0..MaxLink : link \in [1..n -> Blank \cup Control \cup {"slash", "backslash", "letter"}]
  BY DEF Links, Texts
<1>2. n \in Nat /\ DOMAIN link = 1..n /\ Len(link) = n
  BY <1>1, WireAssumption
<1>3. n # 0
  BY <1>1, <1>2, RelativeIsPlain
<1>4. Kept(link) = 1..n
  BY <1>2, RelativeIsPlain DEF Kept, Control
<1>5. 1 \in Kept(link) /\ ReadsAsSlash(link[1])
  BY <1>2, <1>3, <1>4, RelativeIsPlain DEF ReadsAsSlash
<1>6. ASSUME NEW second \in Kept(link) \ {1},
             \A i \in Kept(link) \ {1} : second <= i
      PROVE  ~ReadsAsSlash(link[second])
  <2>1. second \in 2..n
    BY <1>2, <1>4, <1>6
  <2>2. 2 \in Kept(link) \ {1}
    BY <1>2, <1>4, <2>1
  <2>3. n > 1 /\ second = 2
    BY <1>2, <1>6, <2>1, <2>2
  <2>4. link[2] # "slash" /\ link[2] # "backslash"
    BY <1>2, <2>3, RelativeIsPlain
  <2> QED BY <2>3, <2>4 DEF ReadsAsSlash
<1>7. \A i \in Kept(link) : 1 <= i
  BY <1>2, <1>4
<1> QED BY <1>5, <1>6, <1>7 DEF StaysHome

\* Every link that is listed stays on its domain as a browser reads it, for
\* links of any length: what was written has passed RelativeLink::parse.
THEOREM ListedLinksStayHome == Spec => []LinksStayHome
<1>1. IInv => LinksStayHome
  <2> SUFFICES ASSUME IInv, stage = "listed", row.link # NoLink
               PROVE  StaysHome(row.link)
    BY DEF LinksStayHome
  <2>1. row.link \in Links
    <3>1. frame \in Frames /\ row.link = RawLink(frame) /\ Decodes(frame)
      BY DEF IInv, Columns, Rejection
    <3> QED BY <3>1 DEF Frames, RawLink, Decodes
  <2>2. Relative(row.link)
    BY DEF IInv, Columns, Rejection
  <2> QED BY <2>1, <2>2, RelativeStaysHome
<1> QED BY <1>1, Invariance, PTL

=============================================================================
