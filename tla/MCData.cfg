SPECIFICATION MCSpec

CONSTANT None = None

INVARIANTS
    HttpParserExact
    TextExact
    XmlExact
    DataExact
    TimesExact
    CliengExact
    StoreExact
    ArchiveExact

\* A behaviour ends when its bounds are used up.
CHECK_DEADLOCK FALSE
