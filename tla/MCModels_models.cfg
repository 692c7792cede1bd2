SPECIFICATION CarefulSpec
CONSTANTS
    Providers = {Mistral, OpenAI}
    Mistral = Mistral
    Voices = {v1, v2}
    Preset = Preset
    Files = {f1}
    Prefixed = {OpenAI}
    Handlers = {h1, h2}
    Pages = {t1}
    None = None
    MaxFaults = 2
SYMMETRY Interchangeable
INVARIANTS
    TypeOK
    
    RowNamesWhatExists
