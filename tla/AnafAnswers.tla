----------------------------- MODULE AnafAnswers -----------------------------
(***************************************************************************)
(* How the answers of ANAF are read.  stareMesaj answers with a document   *)
(* that parse_anaf_status_response reads (anaf_status_service.py); the     *)
(* response archive holds files that parse_xml_content and                 *)
(* parse_anaf_response_zip read (anaf_response_parser.py).  Both look for  *)
(* the markers of AnafWords, in the elements they know by their tags and   *)
(* in the text as a whole.  A text is the set of the words in it, an       *)
(* answer the sequence of its elements, an archive that of its files.      *)
(***************************************************************************)
EXTENDS AnafWords, Naturals, Sequences, FiniteSets

CONSTANTS
    Words,         \* words of answers
    Tags,          \* tags of elements
    MaxElements,   \* elements of an answer
    MaxFiles       \* files of an archive

VARIABLES
    answer,        \* the answer read so far, a sequence of elements
    archive        \* statuses of the files of an archive

answersVars == <<answer, archive>>

-----------------------------------------------------------------------------
(* Words and markers.                                                      *)

\* Some words hold others: "nok" holds "ok".
MarkersOf == [
    ok            |-> {"ok"},
    nok           |-> {"nok", "ok"},
    validat       |-> {"validat"},
    nepreluat     |-> {"preluat"},
    invalidat     |-> {"invalid", "validat"},
    nevalid       |-> {"nevalid"},
    nu_e_validat  |-> {"nu este valid", "validat"},
    fara_erori    |-> {"fara erori"},
    in_prelucrare |-> {"in prelucrare"},
    factura       |-> {}]

\* "@stare" is an attribute; ANAF states its status in one.  An element
\* <eroare> has a marker in its tag, which the text of the whole answer shows.
TagMarkers(tag) == IF tag = "eroare" THEN {"eroare"} ELSE {}

ASSUME AnswersAssumption ==
    /\ Words \subseteq DOMAIN MarkersOf
    /\ Tags \subseteq {"stare", "@stare", "mesaj", "eroare", "altul"}
    /\ MaxElements \in Nat /\ MaxFiles \in Nat

Element == [tag: Tags, text: {{}} \cup {{w} : w \in Words}]
Statuses == {"rejected", "validated", "pending", "none"}

Markers(text) == UNION {MarkersOf[w] : w \in text}
TextOf(elements) == UNION {elements[n].text : n \in DOMAIN elements}

\* The markers of an answer as one text, tags included.
RawMarkers(elements) ==
    Markers(TextOf(elements))
        \cup UNION {TagMarkers(elements[n].tag) : n \in DOMAIN elements}

-----------------------------------------------------------------------------
(* The status of an upload: anaf_status_service.py.                        *)

\* One turn of the loop over the elements: the last status and the last
\* message stay.
StatusTurn(read, e, raw) ==
    CASE e.tag \in {"stare", "@stare"} /\ e.text # {} ->
             [read EXCEPT !.status = NormalizeAnafStatus(Markers(e.text), raw)]
      [] e.tag \in {"mesaj", "eroare"} /\ e.text # {} ->
             [read EXCEPT !.message = Markers(e.text)]
      [] OTHER -> read

\* The loop over the elements.
StatusRead(elements, raw) ==
    LET read[n \in 0..Len(elements)] ==
            IF n = 0 THEN [status |-> "pending", message |-> {"none"}]
            ELSE StatusTurn(read[n - 1], elements[n], raw)
    IN read[Len(elements)]

\* Without a message element, the message is made of the texts of the first
\* five elements that have one.
MessageRead(elements, message, raw) ==
    LET texts == {n \in DOMAIN elements :
                     elements[n].tag # "@stare" /\ elements[n].text # {}}
        first == {n \in texts : Cardinality({m \in texts : m <= n}) <= 5} IN
    IF message # {"none"} THEN message
    ELSE IF texts = {} THEN raw
    ELSE Markers(UNION {elements[n].text : n \in first})

\* parse_anaf_status_response.
ParseStatus(elements) ==
    LET raw == RawMarkers(elements)
        read == StatusRead(elements, raw)
    IN NormalizeAnafStatus({read.status}, MessageRead(elements, read.message, raw))

-----------------------------------------------------------------------------
(* The response archive: anaf_response_parser.py.                          *)

\* A defect: an element that says nothing takes back what was read.
BadResponseTurn(status, e) ==
    IF e.tag \in {"stare", "mesaj", "eroare"}
    THEN NormalizeFromText(Markers(e.text)) ELSE status

\* One turn of the loop: an element that says nothing changes nothing.
ResponseTurn(status, e) ==
    IF /\ e.tag \in {"stare", "mesaj", "eroare"}
       /\ NormalizeFromText(Markers(e.text)) # "none"
    THEN NormalizeFromText(Markers(e.text)) ELSE status

\* parse_xml_content: the text as a whole first, then each element.
ParseResponse(elements) ==
    LET read[n \in 0..Len(elements)] ==
            IF n = 0 THEN NormalizeFromText(RawMarkers(elements))
            ELSE ResponseTurn(read[n - 1], elements[n])
    IN read[Len(elements)]

\* A defect: a file that validates hides one that rejects.
BadSummary(statuses) ==
    CASE \E n \in DOMAIN statuses : statuses[n] = "validated" -> "validated"
      [] \E n \in DOMAIN statuses : statuses[n] = "rejected" -> "rejected"
      [] \E n \in DOMAIN statuses : statuses[n] = "pending" -> "pending"
      [] OTHER -> "unknown"

\* parse_anaf_response_zip.
Summary(statuses) ==
    LET some(s) == \E n \in DOMAIN statuses : statuses[n] = s IN
    CASE some("rejected") -> "rejected"
      [] ~some("rejected") /\ some("validated") -> "validated"
      [] ~some("rejected") /\ ~some("validated") /\ some("pending") -> "pending"
      [] OTHER -> "unknown"

-----------------------------------------------------------------------------

AnswersInit == answer = <<>> /\ archive = <<>>

\* ANAF writes one more element of the answer.
AnotherElement(e) ==
    /\ archive = <<>> /\ Len(answer) < MaxElements
    /\ answer' = Append(answer, e)
    /\ UNCHANGED archive

\* The answer is the first file of an archive ...
FileEnds ==
    /\ archive = <<>> /\ answer # <<>>
    /\ archive' = <<ParseResponse(answer)>>
    /\ answer' = <<>>

\* ... and of the files that follow only what they are read as is looked at.
AnotherFile(status) ==
    /\ archive # <<>> /\ Len(archive) < MaxFiles
    /\ archive' = Append(archive, status)
    /\ UNCHANGED answer

AnswersNext ==
    \/ FileEnds
    \/ \E e \in Element : AnotherElement(e)
    \/ \E status \in Statuses : AnotherFile(status)

AnswersSpec == AnswersInit /\ [][AnswersNext]_answersVars

\* What has been read is made of elements and of statuses of files.
AnswersTypeOK == answer \in Seq(Element) /\ archive \in Seq(Statuses)

-----------------------------------------------------------------------------
(* Properties.                                                             *)

\* The answer states a status, in a word that some reader knows.
StatesStatus ==
    \E n \in DOMAIN answer : /\ answer[n].tag \in {"stare", "@stare"}
                             /\ Markers(answer[n].text) # {}

\* An answer that states a status is read alike whatever the order and the
\* number of its elements: refused if a word of refusal is anywhere in it,
\* and validated if there is none and a word of success is
\* (parse_anaf_status_response overwrites the status at every element).
OrderDoesNotMatter ==
    LET raw == RawMarkers(answer)
        says(markers) == raw \cap markers # {} IN
    StatesStatus =>
        /\ ParseStatus(answer) = "rejected" <=> says(StatusRejections)
        /\ ParseStatus(answer) = "validated" <=>
               ~says(StatusRejections) /\ says(StatusValidations)

\* Whatever has markers in the answer means the same to both readers.
Unanimous(verdict) ==
    \A n \in DOMAIN answer :
        \A m \in {Markers(answer[n].text), TagMarkers(answer[n].tag)} \ {{}} :
            NormalizeAnafStatus(m, {}) = verdict /\ NormalizeFromText(m) = verdict

\* The two readers were written apart and know different words, and only one
\* of them looks at attributes: they agree on an answer that states a status
\* if all of it means the same to both.
ReadersAgree ==
    \A verdict \in {"rejected", "validated", "pending"} :
        StatesStatus /\ Unanimous(verdict) =>
            ParseStatus(answer) = verdict /\ ParseResponse(answer) = verdict

\* A refusal in any file is the summary of the archive, whatever the files
\* that follow it say.
RefusalStays ==
    [][Summary(archive) = "rejected" => Summary(archive') = "rejected"]_archive
=============================================================================
