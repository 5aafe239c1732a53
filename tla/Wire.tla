-------------------------------- MODULE Wire --------------------------------
(***************************************************************************)
(* One deliver command on its way from a publisher to a recipient's list:  *)
(* the typed command of br-notifier-contract, the JSON it is written as by *)
(* br-notifier-publisher, or that somebody else has written by hand, the   *)
(* RawDeliver the intake reads it as, fn validate, the columns of the      *)
(* table, and the reading of the row.                                      *)
(*                                                                         *)
(* Text is a short sequence of character classes: what RelativeLink,       *)
(* validate, PostgreSQL and a browser tell apart.                          *)
(***************************************************************************)
EXTENDS Naturals, Sequences, FiniteSets

CONSTANTS
    MaxLink,     \* bound: length of a link
    MaxTemplate, \* bound: length of a template
    NoLink,      \* a command, or a row, without link: None, NULL
    Absent,      \* JSON without the member "link"
    Null,        \* JSON whose "link" is null
    Other,       \* JSON whose "link" is neither null nor a string
    Nothing      \* no command, no frame, no row yet

\* A newline stands for the control characters that are whitespace too, nul
\* for those that are not.
Blank == {"space", "newline"}

Control == {"newline", "nul"}

Texts(chars, max) == UNION {[1..n -> chars] : n \in 0..max}

Links == Texts(Blank \cup Control \cup {"slash", "backslash", "letter"}, MaxLink)

Templates == Texts(Blank \cup Control \cup {"letter"}, MaxTemplate)

ASSUME WireAssumption ==
    /\ MaxLink \in Nat /\ MaxTemplate \in Nat
    /\ {NoLink, Absent, Null, Other} \cap Links = {}
    /\ Other \notin {Absent, Null}

VARIABLES
    meant,   \* the command of a typed publisher, Nothing for anybody else
    frame,   \* its JSON on the stream
    row,     \* the columns it ends up in
    stage,   \* where it is
    reason   \* why it was abandoned

vars == <<meant, frame, row, stage, reason>>

\* What a publisher may want to say.  recipients: it names some.  nul: its
\* payload carries a character that JSONB does not take.
Commands == [link       : Links \cup {NoLink},
             recipients : BOOLEAN,
             template   : Templates,
             nul        : BOOLEAN]

\* What may be on the stream.  shaped: every member but the link is there and
\* of its type.
Frames == [shaped     : BOOLEAN,
           link       : Links \cup {Absent, Null, Other},
           recipients : BOOLEAN,
           template   : Templates,
           nul        : BOOLEAN]

Typed == meant # Nothing

Contains(text, chars) == \E i \in DOMAIN text : text[i] \in chars

-----------------------------------------------------------------------------
(* What the code decides about texts. *)

\* Mutant of LinkError: backslashes are let through.
LinkErrorButBackslash(link) ==
    IF      link = <<>>                        THEN "empty"
    ELSE IF Contains(link, Blank \cup Control) THEN "forbidden_character"
    ELSE IF link[1] # "slash"                  THEN "not_rooted"
    ELSE IF Len(link) > 1 /\ link[2] = "slash" THEN "scheme_relative"
    ELSE "none"

\* RelativeLink::parse, in the order of its checks.
LinkError(link) ==
    IF      link = <<>>                        THEN "empty"
    ELSE IF Contains(link, Blank \cup Control) THEN "forbidden_character"
    ELSE IF Contains(link, {"backslash"})      THEN "backslash"
    ELSE IF link[1] # "slash"                  THEN "not_rooted"
    ELSE IF Len(link) > 1 /\ link[2] = "slash" THEN "scheme_relative"
    ELSE "none"

Relative(link) == LinkError(link) = "none"

\* A DeliverNotification holds no link but one that was parsed.
Constructible(c) == c.link # NoLink => Relative(c.link)

\* Mutant of Encode: no link is written as an empty one.
EncodeEmpty(c) ==
    [shaped |-> TRUE, link |-> IF c.link = NoLink THEN <<>> ELSE c.link,
     recipients |-> c.recipients, template |-> c.template, nul |-> c.nul]

\* Serialize for DeliverNotification: every member, the link as the text it was
\* parsed from, and no member at all for no link (skip_serializing_if).
Encode(c) ==
    [shaped |-> TRUE, link |-> IF c.link = NoLink THEN Absent ELSE c.link,
     recipients |-> c.recipients, template |-> c.template, nul |-> c.nul]

\* Deserialize for RawDeliver: the other members have no default, the link is
\* an Option<String> with one.
Decodes(f) == f.shaped /\ f.link # Other

RawLink(f) == IF f.link \in {Absent, Null} THEN NoLink ELSE f.link

\* Mutants of Rejection: the link is not looked at; nor is what the template
\* contains.
RejectionSkipsLink(f) ==
    IF      ~Decodes(f)                              THEN "payload_shape_rejected"
    ELSE IF ~f.recipients                            THEN "no_recipients"
    ELSE IF ~Contains(f.template, {"letter", "nul"}) THEN "template_rejected"
    ELSE IF Contains(f.template, Control)            THEN "template_rejected"
    ELSE "none"

RejectionTrimsOnly(f) ==
    IF      ~Decodes(f)                              THEN "payload_shape_rejected"
    ELSE IF RawLink(f) # NoLink /\ ~Relative(RawLink(f))
                                                     THEN "relative_link_rejected"
    ELSE IF ~f.recipients                            THEN "no_recipients"
    ELSE IF ~Contains(f.template, {"letter", "nul"}) THEN "template_rejected"
    ELSE "none"

\* fn validate, in the order of its checks.
Rejection(f) ==
    IF      ~Decodes(f)                              THEN "payload_shape_rejected"
    ELSE IF RawLink(f) # NoLink /\ ~Relative(RawLink(f))
                                                     THEN "relative_link_rejected"
    ELSE IF ~f.recipients                            THEN "no_recipients"
    ELSE IF ~Contains(f.template, {"letter", "nul"}) THEN "template_rejected"
    ELSE IF Contains(f.template, Control)            THEN "template_rejected"
    ELSE "none"

\* The columns of the row that is made of an accepted command.
Columns(f) == [link |-> RawLink(f), template |-> f.template]

\* PostgreSQL stores no U+0000: class 22, whichever column it is for.
Storable(f) ==
    /\ ~f.nul
    /\ ~Contains(f.template, {"nul"})
    /\ RawLink(f) # NoLink => ~Contains(RawLink(f), {"nul"})

\* Notification::from_row parses the stored link again.
Hydrates(r) == r.link = NoLink \/ Relative(r.link)

-----------------------------------------------------------------------------

Init ==
    /\ meant \in Commands \cup {Nothing}
    /\ frame = Nothing
    /\ row = Nothing
    /\ stage = "draft"
    /\ reason = "none"

\* NotifierPublisher::deliver publishes a typed command in its envelope.
Deliver ==
    /\ stage = "draft"
    /\ Typed
    /\ Constructible(meant)
    /\ frame' = Encode(meant)
    /\ stage' = "sent"
    /\ UNCHANGED <<meant, row, reason>>

\* Somebody else publishes a payload under the same coordinates.
PublishRaw ==
    /\ stage = "draft"
    /\ ~Typed
    /\ frame' \in Frames
    /\ stage' = "sent"
    /\ UNCHANGED <<meant, row, reason>>

Abandon(why) ==
    /\ stage' = "abandoned"
    /\ reason' = why
    /\ UNCHANGED <<meant, frame, row>>

\* The intake refuses the payload.
Refuse ==
    /\ stage = "sent"
    /\ Rejection(frame) # "none"
    /\ Abandon(Rejection(frame))

\* The payload is accepted and PostgreSQL refuses the row.
StorageRejects ==
    /\ stage = "sent"
    /\ Rejection(frame) = "none"
    /\ ~Storable(frame)
    /\ Abandon("storage_rejected")

Store ==
    /\ stage = "sent"
    /\ Rejection(frame) = "none"
    /\ Storable(frame)
    /\ row' = Columns(frame)
    /\ stage' = "stored"
    /\ UNCHANGED <<meant, frame, reason>>

\* The row is read for a page or for a push.
List ==
    /\ stage = "stored"
    /\ stage' = IF Hydrates(row) THEN "listed" ELSE "unlistable"
    /\ UNCHANGED <<meant, frame, row, reason>>

Next ==
    Deliver \/ PublishRaw \/ Refuse \/ StorageRejects \/ Store \/ List

Spec == Init /\ [][Next]_vars

-----------------------------------------------------------------------------
(* Properties. *)

\* How a browser reads a link: leading blanks and controls are dropped, tabs
\* and newlines vanish, a backslash is a slash.
Kept(link) ==
    {i \in DOMAIN link :
        link[i] # "newline" /\ \E j \in 1..i : link[j] \notin Blank \cup Control}

ReadsAsSlash(char) == char \in {"slash", "backslash"}

\* What is left begins with one slash, and not with two.
StaysHome(link) ==
    \E first \in Kept(link) :
        /\ ReadsAsSlash(link[first])
        /\ \A i \in Kept(link) : first <= i
        /\ \A second \in Kept(link) \ {first} :
             (\A i \in Kept(link) \ {first} : second <= i) =>
               ~ReadsAsSlash(link[second])

\* Every link that reaches a list stays on its domain as a browser reads it,
\* although the code looks at the characters one by one (README, "a same-domain
\* relative URL").
LinksStayHome ==
    stage = "listed" /\ row.link # NoLink => StaysHome(row.link)

\* A row the intake writes can always be read back: from_row applies the same
\* rule as validate, so no command makes a page of its recipient fail.
StoredReadsBack == stage # "unlistable"

\* What a typed publisher says arrives as it was meant: the command is written
\* by one type and read by another, and still it is never refused for its shape
\* or its link, and the row it becomes has its template and its link, none if
\* it had none.
TypedArrives ==
    Typed =>
      /\ reason \notin {"payload_shape_rejected", "relative_link_rejected"}
      /\ stage \in {"stored", "listed"} =>
           row = [link |-> meant.link, template |-> meant.template]

\* Validation leaves PostgreSQL nothing to refuse but the payload itself: no
\* link and no template it accepts is poison for the table.
OnlyPayloadsPoison == reason = "storage_rejected" => frame.nul

=============================================================================
