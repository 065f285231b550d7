SPECIFICATION Spec
CONSTANTS
    Lengths <- MCLengths
    Bytes = {0, 1, 2, 255}
INVARIANTS NoReadBeyond ReadsWhatIsWritten LoadsAsWritten StopSwitchesFailClosed
