SPECIFICATION LiveDeskSpec
CONSTANTS
    Requests = {1}
    ComputeKeys = {c1}
    Forms = {form}
    Quotes = {}
    NoForm = NoForm
    NoRequestKey = NoRequestKey
    NoQuote = NoQuote
    Filters = {"all"}
    MaxClicks = 1
PROPERTY ReadingEnds
CHECK_DEADLOCK FALSE
