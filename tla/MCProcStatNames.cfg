\* Names of up to three words, no wrapping.
CONSTANTS
    First = 12
    Word = 8
    MaxCount = 1
    MaxTime = 1
    MaxWords = 3
    None = None
SPECIFICATION Spec
PROPERTIES TimesAreRead
