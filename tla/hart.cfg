SPECIFICATION Spec
CONSTANTS
  Pages = {1, 2}
  Line <- MCLine
  Spans <- MCSpans
  Guests <- MCGuests
  MaxWrites = 2
INVARIANT TranslationsPermitted
INVARIANT StoresSeeCode
INVARIANT DecodedFresh
INVARIANT InterruptsPrompt
PROPERTY ReturnsRestore

CHECK_DEADLOCK FALSE
