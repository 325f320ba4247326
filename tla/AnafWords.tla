------------------------------ MODULE AnafWords ------------------------------
(***************************************************************************)
(* The words by which the code reads an answer of ANAF: its two readers,   *)
(* normalize_anaf_status (anaf_status_service.py) for stareMesaj and       *)
(* normalize_status_from_text (anaf_response_parser.py) for the response   *)
(* archive, look for substrings.  A text is the set of the markers in it,  *)
(* and a marker may be in it by accident: "nepreluat" holds "preluat".     *)
(***************************************************************************)

\* The markers of stareMesaj.
StatusRejections == {"nok", "eroare", "error", "respins", "rejected", "invalid"}
StatusValidations == {"ok", "validat", "validated", "success", "preluat"}

\* A defect: the words that validate are looked for first.
BadNormalizeAnafStatus(value, message) ==
    CASE (value \cup message) \cap StatusValidations # {} -> "validated"
      [] (value \cup message) \cap StatusRejections # {} -> "rejected"
      [] OTHER -> "pending"

\* normalize_anaf_status, on the markers of its two texts.
NormalizeAnafStatus(value, message) ==
    CASE (value \cup message) \cap StatusRejections # {} -> "rejected"
      [] (value \cup message) \cap StatusRejections = {}
         /\ (value \cup message) \cap StatusValidations # {} -> "validated"
      [] OTHER -> "pending"

\* The markers of the archive: "fara erori" and "in prelucrare" are known with
\* and without diacritics.
ResponseRejections == StatusRejections \cup {"nu este valid", "nevalid"}
ResponseValidations == StatusValidations \cup {"fara erori"}
ResponseWaits == {"in prelucrare", "pending"}

AnafMarkers == ResponseRejections \cup ResponseValidations \cup ResponseWaits

\* A defect: the archive's words that validate are looked for first.
BadNormalizeFromText(text) ==
    CASE text \cap ResponseValidations # {} -> "validated"
      [] text \cap ResponseRejections # {} -> "rejected"
      [] text \cap ResponseWaits # {} -> "pending"
      [] OTHER -> "none"

\* normalize_status_from_text.
NormalizeFromText(text) ==
    CASE text \cap ResponseRejections # {} -> "rejected"
      [] text \cap ResponseRejections = {}
         /\ text \cap ResponseValidations # {} -> "validated"
      [] text \cap (ResponseRejections \cup ResponseValidations) = {}
         /\ text \cap ResponseWaits # {} -> "pending"
      [] OTHER -> "none"
=============================================================================
